---- MODULE Spec2Model ----
(***************************************************************************)
(* Model of the datastar-templ attribute helpers (package ds).             *)
(*                                                                         *)
(* Strings are TLA+ strings (ASCII, so Len is Go's byte length); \o is Go  *)
(* string concatenation.  An attribute map (templ.Attributes) is a         *)
(* function from attribute names to values; a value is the record          *)
(* [t |-> "str", s |-> text] or [t |-> "bool", s |-> ""] for the boolean   *)
(* true.                                                                   *)
(*                                                                         *)
(* A behaviour of Spec starts in a state that holds the arguments of a     *)
(* call (arg, drawn from bounded sets) and an empty builder pool; every    *)
(* action is one whole exported function applied to arguments of its type. *)
(* A behaviour of SpecConc has NProcs goroutines, each running the calls   *)
(* that take a pooled builder statement by statement.  A behaviour of      *)
(* SpecMem is a sequence of such calls with the byte arrays the builders   *)
(* write to and the returned strings point into.                           *)
(***************************************************************************)
EXTENDS Integers, Sequences, FiniteSets, TLC

VARIABLES
    arg,    \* the arguments the caller holds: a record tagged by its type
    fn,     \* the name of the function called last ("" before any call)
    ret,    \* the outcome of that call: [how, val, err]
    pool,   \* sharedBuilderPool: the set of idle strings.Builder values
    heap,   \* the attribute maps the caller holds: heap[a] is the map at address a
    last,   \* [ref: the address of Merge's last result, set: the address of the
            \* map the caller changed last]; 0 for none
    calls,  \* calls[p]: the call goroutine p is in, step by step
    work,   \* work[id]: the strings.Builder at address id that a call holds
    mem     \* the byte arrays behind the builders and the strings returned:
            \* [arrays, at, kept]

vars == <<arg, fn, ret, pool, heap, last, calls, work, mem>>

-----------------------------------------------------------------------------
(* Bounds *)

MaxPairs == 2        \* longest pair / signal list
MaxMods == 2         \* longest modifier list
MaxMaps == 3         \* longest argument list of Merge
MaxArgs == 3         \* longest variadic argument list of an SSE action
NProcs == 2          \* goroutines calling the builders at the same time
MaxBuilders == 2     \* distinct strings.Builder addresses
MaxCount == 12       \* largest int passed to Ms / Seconds
MinNeg == 2          \* how far below zero the numeric arguments go
MaxDuration == 127   \* largest time.Duration (1<<63 - 1 in the code), in ticks
Millisecond == 10    \* time.Millisecond (1000000 in the code), in ticks
Refine == 1          \* float64 classes per half hundredth
MaxKept == 3         \* the returned strings the caller keeps

-----------------------------------------------------------------------------
(* Constants of the package *)

prefix == "data-"
prefixOn == "data-on:"
sepColon == ":"
attrAttr == "attr"
attrClass == "class"
attrComputed == "computed"
attrSignals == "signals"
attrStyle == "style"
attrOnIntersect == "on-intersect"
attrJSONSignals == "json-signals"
attrOnSignalPatchFilt == "on-signal-patch-filter"
attrShow == "show"
attrText == "text"
eventClick == "click"
ModDebounce == "__debounce"
Leading == ".leading"

-----------------------------------------------------------------------------
(* Outcomes of a call *)

\* how: "return" (a value, nil error), "panic", or "error" (a *Safe variant's
\* non-nil error, with the zero value)
Returned(v) == [how |-> "return", val |-> v, err |-> ""]
Panicked(msg) == [how |-> "panic", val |-> "", err |-> msg]
Failed(msg) == [how |-> "error", val |-> "", err |-> msg]
NoCall == [how |-> "none", val |-> "", err |-> ""]

StrVal(s) == [t |-> "str", s |-> s]
BoolVal == [t |-> "bool", s |-> ""]

\* mutant: the map is given a second entry
OneAttr_WithClass(name, value) == (name :> value) @@ ("class" :> value)

\* templ.Attributes{name: value}
OneAttr(name, value) == [k \in {name} |-> value]

-----------------------------------------------------------------------------
(* strings.Builder and sync.Pool *)

\* Go's small-object size classes (bytes), used by append to round a capacity up
SizeClasses == <<8, 16, 24, 32, 48, 64, 80, 96, 112, 128, 144, 160, 176, 192,
                 208, 224, 240, 256, 288, 320, 352, 384, 416, 448, 480, 512>>

RoundUpSize(n) ==
    IF n = 0 THEN 0
    ELSE IF \E i \in 1..Len(SizeClasses) : SizeClasses[i] >= n
         THEN SizeClasses[CHOOSE i \in 1..Len(SizeClasses) :
                  /\ SizeClasses[i] >= n
                  /\ \A j \in 1..(i - 1) : SizeClasses[j] < n]
         ELSE n

\* append's growth of a large slice: a quarter (plus 192) at a time
RECURSIVE GrowLoop(_, _)
GrowLoop(newcap, needed) ==
    IF newcap >= needed THEN newcap
    ELSE GrowLoop(newcap + ((newcap + 3 * 256) \div 4), needed)

\* capacity after append grows a []byte of capacity old to hold needed bytes
GrowSlice(old, needed) ==
    RoundUpSize(IF needed > 2 * old THEN needed
                ELSE IF old < 256 THEN 2 * old
                ELSE GrowLoop(old + ((old + 3 * 256) \div 4), needed))

\* New of sharedBuilderPool: new(strings.Builder); b.Grow(128)
NewBuilder(id) == [id |-> id, buf |-> "", cap |-> 128]

\* mutant: Reset keeps what was written
BReset_KeepsText(b) == b

\* mutant: Reset empties the buffer and keeps its array (buf = buf[:0])
BReset_KeepsBuffer(b) == [b EXCEPT !.buf = ""]

\* (*strings.Builder).Reset: drops the buffer
BReset(b) == [b EXCEPT !.buf = "", !.cap = 0]

\* (*strings.Builder).Grow(n): room for n more bytes
BGrow(b, n) ==
    IF b.cap - Len(b.buf) < n THEN [b EXCEPT !.cap = 2 * b.cap + n] ELSE b

\* (*strings.Builder).WriteString / WriteByte: append(b.buf, s...)
BWrite(b, s) ==
    LET n == Len(b.buf) + Len(s)
    IN  [b EXCEPT !.buf = b.buf \o s,
                  !.cap = IF n > b.cap THEN GrowSlice(b.cap, n) ELSE b.cap]

\* the addresses a new builder may get: those that no idle builder and no
\* builder held by a call has, among MaxBuilders addresses or, when the calls
\* in flight hold that many, one more than they hold
FreeIds ==
    LET held == Cardinality(DOMAIN work)
    IN  (1..(IF held < MaxBuilders THEN MaxBuilders ELSE held + 1))
            \ ({b.id : b \in pool} \cup DOMAIN work)

\* sharedBuilderPool.Get(): an idle builder, or a new one (Get may ignore the
\* pool)
PoolGet == pool \cup {NewBuilder(id) : id \in FreeIds}

\* mutant: the builder handed out stays in the pool
PoolTake_Leaves(b) == pool

\* the pool once Get has handed out b
PoolTake(b) == pool \ {b}

\* mutant: the builder is not put back
PoolPut_Dropped(b0, b1) == pool \ {b0}

\* the deferred b.Reset(); sharedBuilderPool.Put(b) of a call that took b0
\* and left the builder as b1
PoolPut(b0, b1) == (pool \ {b0}) \cup {BReset(b1)}


-----------------------------------------------------------------------------
(* fmt.Sprintf("%d", n) / strconv.Itoa *)

Digit(d) == SubSeq("0123456789", d + 1, d + 1)

\* mutant: the digits come out least significant first
RECURSIVE Itoa_Reversed(_)
Itoa_Reversed(n) ==
    IF n < 0 THEN "-" \o Itoa_Reversed(-n)
    ELSE IF n < 10 THEN Digit(n)
    ELSE Digit(n % 10) \o Itoa_Reversed(n \div 10)

RECURSIVE Itoa(_)
Itoa(n) ==
    IF n < 0 THEN "-" \o Itoa(-n)
    ELSE IF n < 10 THEN Digit(n)
    ELSE Itoa(n \div 10) \o Digit(n % 10)

-----------------------------------------------------------------------------
(* buildPairs (attrs.go) *)

\* the valueFormatter closures passed to buildPairs: "expr" is the identity
\* of Class / Attr / Style, "computed" the arrow wrapper of Computed
valueFormatter(f, expr) == IF f = "computed" THEN "() => " \o expr ELSE expr

\* mutant: the capacity counts the keys and the punctuation only
RECURSIVE PairsCapacity_KeysOnly(_, _, _, _)
PairsCapacity_KeysOnly(pairs, f, i, capacity) ==
    IF i > Len(pairs) THEN capacity
    ELSE PairsCapacity_KeysOnly(pairs, f, i + 1,
            capacity + (IF i > 1 THEN 2 ELSE 0) + 1 + Len(pairs[i].key) + 4)

\* the capacity loop, from pair i on
RECURSIVE PairsCapacity(_, _, _, _)
PairsCapacity(pairs, f, i, capacity) ==
    IF i > Len(pairs) THEN capacity
    ELSE PairsCapacity(pairs, f, i + 1,
            capacity + (IF i > 1 THEN 2 ELSE 0)
                     + 1 + Len(pairs[i].key) + 4
                     + Len(valueFormatter(f, pairs[i].expr)))

\* mutant: the separator is written before every pair, the first included
RECURSIVE WritePairs_SepFirst(_, _, _, _)
WritePairs_SepFirst(pairs, f, i, b) ==
    IF i > Len(pairs) THEN b
    ELSE LET b1 == BWrite(BWrite(b, ","), " ")
             b2 == BWrite(b1, "'")
             b3 == BWrite(b2, pairs[i].key)
             b4 == BWrite(b3, "': ")
             b5 == BWrite(b4, valueFormatter(f, pairs[i].expr))
         IN  WritePairs_SepFirst(pairs, f, i + 1, b5)

\* the write loop, from pair i on
RECURSIVE WritePairs(_, _, _, _)
WritePairs(pairs, f, i, b) ==
    IF i > Len(pairs) THEN b
    ELSE LET b1 == IF i > 1 THEN BWrite(BWrite(b, ","), " ") ELSE b
             b2 == BWrite(b1, "'")
             b3 == BWrite(b2, pairs[i].key)
             b4 == BWrite(b3, "': ")
             b5 == BWrite(b4, valueFormatter(f, pairs[i].expr))
         IN  WritePairs(pairs, f, i + 1, b5)

\* buildPairs on the builder b it took from the pool: the builder as it is
\* when b.String() is read (the returned string is its buf)
buildPairs(b, pairs, f) ==
    LET capacity == PairsCapacity(pairs, f, 1, 2)
        b1 == IF b.cap < capacity THEN BGrow(b, capacity - Len(b.buf)) ELSE b
        b2 == BWrite(b1, "{")
        b3 == WritePairs(pairs, f, 1, b2)
    IN  BWrite(b3, "}")

-----------------------------------------------------------------------------
(* Signals (attrs.go) *)

\* the capacity loop of Signals, from signal i on
RECURSIVE SignalsCapacity(_, _, _)
SignalsCapacity(signals, i, capacity) ==
    IF i > Len(signals) THEN capacity
    ELSE SignalsCapacity(signals, i + 1,
            capacity + (IF i > 1 THEN 2 ELSE 0)
                     + Len(signals[i].key) + 2 + Len(signals[i].value))

\* mutant: the keys are single-quoted as in buildPairs
RECURSIVE WriteSignals_Quoted(_, _, _)
WriteSignals_Quoted(signals, i, b) ==
    IF i > Len(signals) THEN b
    ELSE LET b1 == IF i > 1 THEN BWrite(BWrite(b, ","), " ") ELSE b
             b2 == BWrite(BWrite(BWrite(b1, "'"), signals[i].key), "'")
             b3 == BWrite(BWrite(b2, ":"), " ")
             b4 == BWrite(b3, signals[i].value)
         IN  WriteSignals_Quoted(signals, i + 1, b4)

\* the write loop of Signals, from signal i on
RECURSIVE WriteSignals(_, _, _)
WriteSignals(signals, i, b) ==
    IF i > Len(signals) THEN b
    ELSE LET b1 == IF i > 1 THEN BWrite(BWrite(b, ","), " ") ELSE b
             b2 == BWrite(b1, signals[i].key)
             b3 == BWrite(BWrite(b2, ":"), " ")
             b4 == BWrite(b3, signals[i].value)
         IN  WriteSignals(signals, i + 1, b4)

\* the body of Signals on the builder b it took from the pool
signalsBody(b, signals) ==
    LET capacity == SignalsCapacity(signals, 1, 2)
        b1 == IF b.cap < capacity THEN BGrow(b, capacity - Len(b.buf)) ELSE b
        b2 == BWrite(b1, "{")
        b3 == WriteSignals(signals, 1, b2)
    IN  BWrite(b3, "}")

-----------------------------------------------------------------------------
(* time.Duration: a signed integer of ticks that wraps outside             *)
(* -(MaxDuration + 1) .. MaxDuration                                       *)

minDuration == -(MaxDuration + 1)

\* two's-complement wrap of an arithmetic result
Wrap(x) == ((x - minDuration) % (2 * (MaxDuration + 1))) + minDuration

\* lessThanHalf(x, y): uint64(x)+uint64(x) < uint64(y), for 0 <= x < y
lessThanHalf(x, y) == x + x < y

\* (time.Duration).Round(m): half away from zero; the maximum (minimum)
\* duration when the result would overflow
Round(d, m) ==
    IF m <= 0 THEN d
    ELSE IF d < 0
         THEN LET r == (-d) % m
              IN  IF lessThanHalf(r, m) THEN d + r
                  ELSE IF Wrap(d - m + r) < d THEN Wrap(d - m + r)
                  ELSE minDuration
         ELSE LET r == d % m
              IN  IF lessThanHalf(r, m) THEN d - r
                  ELSE IF Wrap(d + m - r) > d THEN Wrap(d + m - r)
                  ELSE MaxDuration

\* (time.Duration).Milliseconds(): integer division truncating toward zero
Milliseconds(d) ==
    IF d >= 0 THEN d \div Millisecond ELSE -((-d) \div Millisecond)

-----------------------------------------------------------------------------
(* float64.  A value is NaN, an infinity, or a number given by its place   *)
(* on a grid of Grid steps per unit: [n, exact] is n/Grid when exact and   *)
(* any float64 strictly between n/Grid and (n+1)/Grid otherwise.  Every    *)
(* hundredth and every half hundredth is a grid point, so all float64      *)
(* values of one class compare alike with 0 and 1 and format alike with    *)
(* %.2f.  Only the grid points that are binary fractions are float64.      *)

Grid == 200 * Refine

Num(n, exact) == [kind |-> "num", n |-> n, exact |-> exact]
NaN == [kind |-> "nan", n |-> 0, exact |-> FALSE]
PosInf == [kind |-> "+inf", n |-> 0, exact |-> FALSE]
NegInf == [kind |-> "-inf", n |-> 0, exact |-> FALSE]

RECURSIVE OddPart(_)
OddPart(k) == IF k % 2 = 0 THEN OddPart(k \div 2) ELSE k

\* n/Grid is a binary fraction, hence a float64
Representable(n) == n % OddPart(Grid) = 0

\* t <= 0, t > 1, t == 1 of Threshold: every comparison with NaN is false

FloatLeZero(t) ==
    \/ t.kind = "-inf"
    \/ t.kind = "num" /\ (t.n < 0 \/ (t.n = 0 /\ t.exact))

FloatGtOne(t) ==
    \/ t.kind = "+inf"
    \/ t.kind = "num" /\ (t.n > Grid \/ (t.n = Grid /\ ~t.exact))

FloatEqOne(t) == t.kind = "num" /\ t.n = Grid /\ t.exact

\* mutant: the digits after the second are cut off
RoundHundredths_Truncate(t) == t.n \div (Grid \div 100)

\* the hundredths nearest to a number t >= 0 as strconv rounds the exact
\* binary value: to nearest, an exact tie to the even digit
RoundHundredths(t) ==
    LET u == Grid \div 100
        q == t.n \div u
        r == t.n % u
    IN  IF t.exact
        THEN IF 2 * r < u THEN q
             ELSE IF 2 * r > u THEN q + 1
             ELSE IF q % 2 = 0 THEN q ELSE q + 1
        ELSE IF 2 * r >= u THEN q + 1 ELSE q

\* fmt.Sprintf("%.2f", t)
Sprintf2f(t) ==
    CASE t.kind = "nan" -> "NaN"
      [] t.kind = "+inf" -> "+Inf"
      [] t.kind = "-inf" -> "-Inf"
      [] t.kind = "num" ->
           LET neg == t.n < 0
               m == IF ~neg THEN t
                    ELSE IF t.exact THEN Num(-t.n, TRUE) ELSE Num(-t.n - 1, FALSE)
               h == RoundHundredths(m)
           IN  (IF neg THEN "-" ELSE "") \o Itoa(h \div 100) \o "."
                   \o Digit((h % 100) \div 10) \o Digit(h % 10)

\* mutant: nothing is trimmed
TrimPrefix_Keep(s, pre) == s

\* strings.TrimPrefix(s, prefix)
TrimPrefix(s, pre) ==
    IF Len(s) >= Len(pre) /\ SubSeq(s, 1, Len(pre)) = pre
    THEN SubSeq(s, Len(pre) + 1, Len(s))
    ELSE s

-----------------------------------------------------------------------------
(* Modifier helpers: Duration, Ms, Seconds, Threshold *)

Duration(d) ==
    IF d < 0
    THEN Panicked("ds: duration must not be negative")
    ELSE Returned("." \o Itoa(Milliseconds(Round(d, Millisecond))) \o "ms")

Ms(n) ==
    IF n < 0
    THEN Panicked("ds: milliseconds must not be negative")
    ELSE Returned("." \o Itoa(n) \o "ms")

Seconds(n) ==
    IF n < 0
    THEN Panicked("ds: seconds must not be negative")
    ELSE Returned("." \o Itoa(n) \o "s")

\* mutant: the upper end of the range is not checked
Threshold_NoUpperCheck(t) ==
    IF FloatLeZero(t)
    THEN Panicked("ds: threshold must be between 0.0 (exclusive) and 1.0 (inclusive)")
    ELSE IF FloatEqOne(t) THEN Returned(".100")
    ELSE Returned(TrimPrefix(Sprintf2f(t), "0"))

Threshold(t) ==
    IF FloatLeZero(t) \/ FloatGtOne(t)
    THEN Panicked("ds: threshold must be between 0.0 (exclusive) and 1.0 (inclusive)")
    ELSE IF FloatEqOne(t) THEN Returned(".100")
    ELSE Returned(TrimPrefix(Sprintf2f(t), "0"))

\* The error-returning variants: the same validation and the same rendering,
\* the failure surfaced as an error next to the zero Modifier
DurationSafe(d) ==
    IF d < 0
    THEN Failed("ds: duration must not be negative")
    ELSE Returned("." \o Itoa(Milliseconds(Round(d, Millisecond))) \o "ms")

MsSafe(n) ==
    IF n < 0
    THEN Failed("ds: milliseconds must not be negative")
    ELSE Returned("." \o Itoa(n) \o "ms")

SecondsSafe(n) ==
    IF n < 0
    THEN Failed("ds: seconds must not be negative")
    ELSE Returned("." \o Itoa(n) \o "s")

ThresholdSafe(t) ==
    IF FloatLeZero(t) \/ FloatGtOne(t)
    THEN Failed("ds: threshold must be between 0.0 (exclusive) and 1.0 (inclusive)")
    ELSE IF FloatEqOne(t) THEN Returned(".100")
    ELSE Returned(TrimPrefix(Sprintf2f(t), "0"))

-----------------------------------------------------------------------------
(* Attribute names: mods / on / plugin / keyed / val / boolAttr *)

\* mutant: a modifier equal to the one before it is skipped
RECURSIVE WriteMods_Dedup(_, _, _)
WriteMods_Dedup(modifiers, i, b) ==
    IF i > Len(modifiers) THEN b
    ELSE WriteMods_Dedup(modifiers, i + 1,
            IF i > 1 /\ modifiers[i] = modifiers[i - 1] THEN b
            ELSE BWrite(b, modifiers[i]))

\* the loop of mods, from modifier i on
RECURSIVE WriteMods(_, _, _)
WriteMods(modifiers, i, b) ==
    IF i > Len(modifiers) THEN b
    ELSE WriteMods(modifiers, i + 1, BWrite(b, modifiers[i]))

\* mods(modifiers): the possible outcomes [s: the string returned,
\* pool: the pool afterwards]; no builder is taken for an empty list
mods(modifiers) ==
    IF Len(modifiers) = 0
    THEN {[s |-> "", pool |-> pool]}
    ELSE {[s |-> WriteMods(modifiers, 1, b).buf,
           pool |-> PoolPut(b, WriteMods(modifiers, 1, b))] : b \in PoolGet}

on(event, modifiers) ==
    {[s |-> prefixOn \o event \o o.s, pool |-> o.pool] : o \in mods(modifiers)}

plugin(name, modifiers) ==
    {[s |-> prefix \o name \o o.s, pool |-> o.pool] : o \in mods(modifiers)}

keyed(name, key, modifiers) ==
    {[s |-> prefix \o name \o sepColon \o key \o o.s, pool |-> o.pool] :
        o \in mods(modifiers)}

\* mutant: the value is put between double quotes
val_Quoted(name, value) == OneAttr(name, StrVal("\"" \o value \o "\""))

val(name, value) == OneAttr(name, StrVal(value))

boolAttr(name) == OneAttr(name, BoolVal)

-----------------------------------------------------------------------------
(* Merge *)

\* size := sum of len(a): the capacity hint of the result map
RECURSIVE MergeSize(_, _)
MergeSize(attrs, i) ==
    IF i > Len(attrs) THEN 0 ELSE Cardinality(DOMAIN attrs[i]) + MergeSize(attrs, i + 1)

\* mutant: a key already present keeps its value
CopyInto_FirstWins(m, a) ==
    [k \in DOMAIN m \cup DOMAIN a |-> IF k \in DOMAIN m THEN m[k] ELSE a[k]]

\* for k, v := range a { m[k] = v }
CopyInto(m, a) ==
    [k \in DOMAIN m \cup DOMAIN a |-> IF k \in DOMAIN a THEN a[k] ELSE m[k]]

\* mutant: the loop ends at the first empty map
RECURSIVE MergeLoop_StopsAtEmpty(_, _, _)
MergeLoop_StopsAtEmpty(attrs, i, m) ==
    IF i > Len(attrs) \/ DOMAIN attrs[i] = {} THEN m
    ELSE MergeLoop_StopsAtEmpty(attrs, i + 1, CopyInto(m, attrs[i]))

\* the outer loop of Merge, from map i on, into m
RECURSIVE MergeLoop(_, _, _)
MergeLoop(attrs, i, m) ==
    IF i > Len(attrs) THEN m ELSE MergeLoop(attrs, i + 1, CopyInto(m, attrs[i]))

EmptyAttrs == [k \in {} |-> BoolVal]

Merge(attrs) == MergeLoop(attrs, 1, EmptyAttrs)

-----------------------------------------------------------------------------
(* The flat-string helpers: toPairs / toObject / toComputed               *)

\* var b strings.Builder: a builder of the call's own, outside every pool
LocalBuilder == [id |-> 0, buf |-> "", cap |-> 0]

\* mutant: the keys are written without quotes
RECURSIVE WriteFlatPairs_BareKeys(_, _, _, _)
WriteFlatPairs_BareKeys(pairs, f, i, b) ==
    IF i >= Len(pairs) THEN b
    ELSE LET b1 == IF i > 0 THEN BWrite(b, ", ") ELSE b
             b2 == BWrite(b1, pairs[i + 1] \o ": " \o valueFormatter(f, pairs[i + 2]))
         IN  WriteFlatPairs_BareKeys(pairs, f, i + 2, b2)

\* the loop of toPairs, from the 0-based index i on (i += 2)
RECURSIVE WriteFlatPairs(_, _, _, _)
WriteFlatPairs(pairs, f, i, b) ==
    IF i >= Len(pairs) THEN b
    ELSE LET b1 == IF i > 0 THEN BWrite(b, ", ") ELSE b
             b2 == BWrite(b1, "'" \o pairs[i + 1] \o "': "
                                  \o valueFormatter(f, pairs[i + 2]))
         IN  WriteFlatPairs(pairs, f, i + 2, b2)

\* mutant: the empty list is refused as well
toPairs_RefusesEmpty(pairs, panicMsg, f) ==
    IF Len(pairs) % 2 = 1 \/ Len(pairs) = 0 THEN Panicked(panicMsg)
    ELSE Returned(BWrite(WriteFlatPairs(pairs, f, 0, BWrite(LocalBuilder, "{")), "}").buf)

toPairs(pairs, panicMsg, f) ==
    IF Len(pairs) % 2 = 1 THEN Panicked(panicMsg)
    ELSE Returned(BWrite(WriteFlatPairs(pairs, f, 0, BWrite(LocalBuilder, "{")), "}").buf)

toObject(pairs) == toPairs(pairs, "ds: each key must have a value", "expr")

toComputed(pairs) ==
    toPairs(pairs, "ds: each computed signal name must have an expression", "computed")

-----------------------------------------------------------------------------
(* JSON / JSONSafe (attrs.go).  A Go value handed to json.Marshal is the   *)
(* record [kind, n, s, items]: an int (n), a string (s), a bool (n = 1 or  *)
(* 0), nil, a slice of such values (items), a channel, a func, or the      *)
(* float64 NaN.                                                            *)

GoValue(kind, n, s, items) == [kind |-> kind, n |-> n, s |-> s, items |-> items]

Signal(key, value) == [key |-> key, value |-> value]

\* strconv.Quote's escaping of one byte of an ASCII string
QuoteByte(c) ==
    CASE c = "\"" -> "\\\""
      [] c = "\\" -> "\\\\"
      [] c = "\n" -> "\\n"
      [] OTHER -> c

RECURSIVE QuoteBytes(_)
QuoteBytes(s) ==
    IF Len(s) = 0 THEN ""
    ELSE QuoteByte(SubSeq(s, 1, 1)) \o QuoteBytes(SubSeq(s, 2, Len(s)))

\* mutant: the text is put between the quotes as it is
Quote_Unescaped(s) == "\"" \o s \o "\""

\* strconv.Quote(s): a double-quoted Go string literal
Quote(s) == "\"" \o QuoteBytes(s) \o "\""

\* String(key, value): a string signal
String(key, value) == Signal(key, Quote(value))

\* encoding/json's string escaping (HTML-safe): one byte
EscapeByte(c) ==
    CASE c = "\"" -> "\\\""
      [] c = "\\" -> "\\\\"
      [] c = "<" -> "\\u003c"
      [] c = ">" -> "\\u003e"
      [] c = "&" -> "\\u0026"
      [] OTHER -> c

RECURSIVE EscapeString(_)
EscapeString(s) ==
    IF Len(s) = 0 THEN ""
    ELSE EscapeByte(SubSeq(s, 1, 1)) \o EscapeString(SubSeq(s, 2, Len(s)))

\* json.Marshal of a value that is not a slice: [ok, text, err]
MarshalScalar(v) ==
    CASE v.kind = "int" -> [ok |-> TRUE, text |-> Itoa(v.n), err |-> ""]
      [] v.kind = "string" ->
            [ok |-> TRUE, text |-> "\"" \o EscapeString(v.s) \o "\"", err |-> ""]
      [] v.kind = "bool" ->
            [ok |-> TRUE, text |-> IF v.n = 1 THEN "true" ELSE "false", err |-> ""]
      [] v.kind = "nil" -> [ok |-> TRUE, text |-> "null", err |-> ""]
      [] v.kind = "chan" ->
            [ok |-> FALSE, text |-> "", err |-> "json: unsupported type: chan int"]
      [] v.kind = "func" ->
            [ok |-> FALSE, text |-> "", err |-> "json: unsupported type: func()"]
      [] OTHER -> [ok |-> FALSE, text |-> "", err |-> "json: unsupported value: NaN"]

\* the elements of a slice from element i on, appended to text; the first
\* element that cannot be encoded ends the encoding with its error
RECURSIVE MarshalItems(_, _, _)
MarshalItems(items, i, text) ==
    IF i > Len(items) THEN [ok |-> TRUE, text |-> text \o "]", err |-> ""]
    ELSE LET m == MarshalScalar(items[i])
         IN  IF m.ok
             THEN MarshalItems(items, i + 1,
                      text \o (IF i > 1 THEN "," ELSE "") \o m.text)
             ELSE m

\* json.Marshal(value)
Marshal(value) ==
    IF value.kind = "slice" THEN MarshalItems(value.items, 1, "[")
    ELSE MarshalScalar(value)

\* mutant: a value that cannot be marshaled becomes null
JSON_NeverPanics(key, value) ==
    LET m == Marshal(value)
    IN  Returned(Signal(key, IF m.ok THEN m.text ELSE "null"))

JSON(key, value) ==
    LET m == Marshal(value)
    IN  IF ~m.ok THEN Panicked("ds: failed to marshal JSON signal: " \o m.err)
        ELSE Returned(Signal(key, m.text))

\* mutant: the Signal returned with the error keeps the key
JSONSafe_KeepsKey(key, value) ==
    LET m == Marshal(value)
    IN  IF ~m.ok
        THEN [how |-> "error", val |-> Signal(key, ""),
              err |-> "ds: failed to marshal JSON signal: " \o m.err]
        ELSE Returned(Signal(key, m.text))

JSONSafe(key, value) ==
    LET m == Marshal(value)
    IN  IF ~m.ok
        THEN [how |-> "error", val |-> Signal("", ""),
              err |-> "ds: failed to marshal JSON signal: " \o m.err]
        ELSE Returned(Signal(key, m.text))

-----------------------------------------------------------------------------
(* SSE actions (actions.go).  An argument of Get / Post / ... is the       *)
(* record [kind, key, value, raw, n]: an sseOption (key, value, raw), an   *)
(* int (n) or a string (value).                                            *)

actionGet == "get"
actionPost == "post"
actionPut == "put"
actionPatch == "patch"
actionDelete == "delete"

Opt(key, value) == [kind |-> "sseOption", key |-> key, value |-> value, raw |-> FALSE, n |-> 0]
OptRaw(key, value) == [kind |-> "sseOption", key |-> key, value |-> value, raw |-> TRUE, n |-> 0]
IntArg(n) == [kind |-> "int", key |-> "", value |-> "", raw |-> FALSE, n |-> n]
StringArg(s) == [kind |-> "string", key |-> "", value |-> s, raw |-> FALSE, n |-> 0]

\* fmt's %v of an operand
FormatDefault(x) == IF x.kind = "int" THEN Itoa(x.n) ELSE x.value

\* fmt's rendering of one operand under the verb v, for the verbs d, s and v;
\* a verb the operand's type does not have gives %!v(type=value)
FormatArg(v, x) ==
    IF \/ v = "v"
       \/ v = "d" /\ x.kind = "int"
       \/ v = "s" /\ x.kind = "string"
    THEN FormatDefault(x)
    ELSE "%!" \o v \o "(" \o x.kind \o "=" \o FormatDefault(x) \o ")"

\* the operands from argNum on that no verb consumed, as fmt lists them
RECURSIVE FormatExtra(_, _)
FormatExtra(a, argNum) ==
    IF argNum > Len(a) THEN ""
    ELSE a[argNum].kind \o "=" \o FormatDefault(a[argNum])
            \o (IF argNum < Len(a) THEN ", " ELSE "")
            \o FormatExtra(a, argNum + 1)

\* fmt.Sprintf(format, a...) from byte i of the format and operand argNum on
RECURSIVE SprintfLoop(_, _, _, _, _)
SprintfLoop(format, a, i, argNum, out) ==
    IF i > Len(format)
    THEN out \o (IF argNum <= Len(a)
                 THEN "%!(EXTRA " \o FormatExtra(a, argNum) \o ")" ELSE "")
    ELSE IF SubSeq(format, i, i) # "%"
    THEN SprintfLoop(format, a, i + 1, argNum, out \o SubSeq(format, i, i))
    ELSE IF i = Len(format)
    THEN SprintfLoop(format, a, i + 1, argNum, out \o "%!(NOVERB)")
    ELSE LET v == SubSeq(format, i + 1, i + 1)
         IN  IF v = "%" THEN SprintfLoop(format, a, i + 2, argNum, out \o "%")
             ELSE IF argNum > Len(a)
             THEN SprintfLoop(format, a, i + 2, argNum, out \o "%!" \o v \o "(MISSING)")
             ELSE SprintfLoop(format, a, i + 2, argNum + 1, out \o FormatArg(v, a[argNum]))

Sprintf(format, a) == SprintfLoop(format, a, 1, 1, "")

\* mutant: an option is put in front of the options found before it
RECURSIVE SplitArgs_Prepend(_, _, _, _)
SplitArgs_Prepend(args, i, opts, fmtArgs) ==
    IF i > Len(args) THEN [opts |-> opts, fmtArgs |-> fmtArgs]
    ELSE IF args[i].kind = "sseOption"
    THEN SplitArgs_Prepend(args, i + 1, <<args[i]>> \o opts, fmtArgs)
    ELSE SplitArgs_Prepend(args, i + 1, opts, Append(fmtArgs, args[i]))

\* the loop of sseAction over args, from argument i on
RECURSIVE SplitArgs(_, _, _, _)
SplitArgs(args, i, opts, fmtArgs) ==
    IF i > Len(args) THEN [opts |-> opts, fmtArgs |-> fmtArgs]
    ELSE IF args[i].kind = "sseOption"
    THEN SplitArgs(args, i + 1, Append(opts, args[i]), fmtArgs)
    ELSE SplitArgs(args, i + 1, opts, Append(fmtArgs, args[i]))

\* mutant: every value is single-quoted, raw or not
RECURSIVE WriteOpts_AllQuoted(_, _, _)
WriteOpts_AllQuoted(opts, i, b) ==
    IF i > Len(opts) THEN b
    ELSE LET b1 == IF i > 1 THEN BWrite(b, ", ") ELSE b
         IN  WriteOpts_AllQuoted(opts, i + 1,
                 BWrite(b1, Sprintf("%s: '%s'", <<StringArg(opts[i].key),
                                                   StringArg(opts[i].value)>>)))

\* the loop of buildOpts, from option i on
RECURSIVE WriteOpts(_, _, _)
WriteOpts(opts, i, b) ==
    IF i > Len(opts) THEN b
    ELSE LET b1 == IF i > 1 THEN BWrite(b, ", ") ELSE b
             operands == <<StringArg(opts[i].key), StringArg(opts[i].value)>>
         IN  WriteOpts(opts, i + 1,
                 BWrite(b1, IF opts[i].raw THEN Sprintf("%s: %s", operands)
                            ELSE Sprintf("%s: '%s'", operands)))

\* the body of buildOpts on the builder b it took from the pool: the builder
\* when b.String() is read
buildOpts(b, opts) == BWrite(WriteOpts(opts, 1, BWrite(b, "{")), "}")

\* sseAction(verb, urlFormat, args): the possible outcomes [s: the string
\* returned, pool: the pool afterwards]
sseAction(verb, urlFormat, args) ==
    LET split == SplitArgs(args, 1, <<>>, <<>>)
        url == Sprintf(urlFormat, split.fmtArgs)
    IN  IF Len(split.opts) = 0
        THEN {[s |-> Sprintf("@%s('%s')", <<StringArg(verb), StringArg(url)>>),
               pool |-> pool]}
        ELSE {[s |-> Sprintf("@%s('%s',%s)",
                             <<StringArg(verb), StringArg(url),
                               StringArg(buildOpts(b, split.opts).buf)>>),
               pool |-> PoolPut(b, buildOpts(b, split.opts))] : b \in PoolGet}

-----------------------------------------------------------------------------
(* toSignals: json.Marshal of a map[string]any, a function from keys to Go *)
(* values.  The encoder writes the keys in sorted order.                   *)

\* the keys of the model in byte order
KeyOrder == <<"a", "b-c">>

InMap(m, k) == k \in DOMAIN m

\* the entries of the map from the i-th sorted key on, appended to text; the
\* first value that cannot be encoded ends the encoding with its error
RECURSIVE MarshalEntries(_, _, _, _)
MarshalEntries(m, keys, i, text) ==
    IF i > Len(keys) THEN [ok |-> TRUE, text |-> text \o "}", err |-> ""]
    ELSE LET v == MarshalScalar(m[keys[i]])
         IN  IF v.ok
             THEN MarshalEntries(m, keys, i + 1,
                      text \o (IF i > 1 THEN "," ELSE "")
                           \o "\"" \o EscapeString(keys[i]) \o "\":" \o v.text)
             ELSE v

MarshalMap(m) ==
    MarshalEntries(m, SelectSeq(KeyOrder, LAMBDA k : InMap(m, k)), 1, "{")

toSignals(signals) ==
    LET m == MarshalMap(signals)
    IN  IF ~m.ok
        THEN Panicked(Sprintf("ds: failed to marshal signals: %v", <<StringArg(m.err)>>))
        ELSE Returned(m.text)

-----------------------------------------------------------------------------
(* Filter objects (toFilter): a Filter is [Include, Exclude], two regular  *)
(* expressions given as text, "" for a field that is not set               *)

Filter(include, exclude) == [Include |-> include, Exclude |-> exclude]

\* mutant: the braces are written around both fields whether set or not
toFilter_AllFields(f) ==
    "{include: " \o f.Include \o ", exclude: " \o f.Exclude \o "}"

\* var b strings.Builder: a builder of the call's own, not a pooled one
toFilter(f) ==
    LET b1 == BWrite(LocalBuilder, "{")
        b2 == IF f.Include # ""
              THEN BWrite(b1, Sprintf("include: %s", <<StringArg(f.Include)>>))
              ELSE b1
        b3 == IF f.Include # "" /\ f.Exclude # "" THEN BWrite(b2, ", ") ELSE b2
        b4 == IF f.Exclude # ""
              THEN BWrite(b3, Sprintf("exclude: %s", <<StringArg(f.Exclude)>>))
              ELSE b3
    IN  BWrite(b4, "}").buf

-----------------------------------------------------------------------------
(* Merge on the caller's maps: a map is known by its address in heap *)

\* mutant: the later maps are copied into the first one, which is returned
MergeAlloc_InPlace(h, refs) ==
    IF Len(refs) = 0
    THEN [heap |-> <<Merge(<<>>)>>, ref |-> 1]
    ELSE [heap |-> [SubSeq(h, 1, Len(refs)) EXCEPT
                       ![refs[1]] = Merge([i \in 1..Len(refs) |-> h[refs[i]]])],
          ref |-> refs[1]]

\* Merge(attrs...) given the addresses of attrs: m := make(...) is a map at a
\* new address (the one after the arguments'; a result held there from an
\* earlier call is dropped by the caller)
MergeAlloc(h, refs) ==
    [heap |-> Append(SubSeq(h, 1, Len(refs)),
                     Merge([i \in 1..Len(refs) |-> h[refs[i]]])),
     ref |-> Len(refs) + 1]

-----------------------------------------------------------------------------
(* Arguments *)

SeqsUpTo(S, n) == UNION {[1..k -> S] : k \in 0..n}

Keys == {"a", "b-c"}
Exprs == {"$x", "!$y"}
SignalValues == {"42", "\"hi\""}

PairItems == [key : Keys, expr : Exprs]
SignalItems == [key : Keys, value : SignalValues]

\* a key and an expression with quotes, braces, commas and a backslash
SpecialKeys == {"it's"}
SpecialExprs == {"f({a: \"b\\c\", d: 'e'})"}

PairArgs ==
    {[type |-> "pairs", pairs |-> ps] : ps \in SeqsUpTo(PairItems, MaxPairs)}
        \cup {[type |-> "pairs", pairs |-> <<[key |-> k, expr |-> e]>>] :
                  k \in SpecialKeys, e \in Exprs \cup SpecialExprs}
SignalArgs == {[type |-> "signals", signals |-> ss] : ss \in SeqsUpTo(SignalItems, MaxPairs)}

Names == {"table-select", "x"}
Modifiers == {ModDebounce, ".300ms", Leading}

NamedArgs ==
    {[type |-> "named", name |-> n, expr |-> e, modifiers |-> ms] :
        n \in Names, e \in Exprs \cup SpecialExprs, ms \in SeqsUpTo(Modifiers, MaxMods)}

AttrNames == {"data-show", "data-on:click"}
AttrValues == {StrVal("$a"), StrVal("$b"), BoolVal}
AttrMaps == UNION {[D -> AttrValues] : D \in SUBSET AttrNames}

MapArgs == {[type |-> "maps", attrs |-> as] : as \in SeqsUpTo(AttrMaps, MaxMaps)}

DurationArgs == {[type |-> "duration", d |-> d] : d \in (-MinNeg)..MaxDuration}

IntArgs == {[type |-> "int", n |-> n] : n \in ((-MinNeg)..MaxCount) \cup {300, 1000}}

Floats ==
    {Num(n, FALSE) : n \in (-MinNeg)..(Grid + MinNeg)}
        \cup {Num(n, TRUE) : n \in {k \in (-MinNeg)..(Grid + MinNeg) : Representable(k)}}
        \cup {NaN, PosInf, NegInf}

FloatArgs == {[type |-> "float", t |-> t] : t \in Floats}

GoScalars ==
    {GoValue("int", n, "", <<>>) : n \in {0, 42, -7}}
        \cup {GoValue("string", 0, s, <<>>) : s \in {"hi", "a\"b", "<b>"}}
        \cup {GoValue("bool", n, "", <<>>) : n \in {0, 1}}
        \cup {GoValue(k, 0, "", <<>>) : k \in {"nil", "chan", "func", "nan"}}

\* the values of the maps handed to Signals(map[string]any, ...)
SigValues ==
    {GoValue("int", 42, "", <<>>), GoValue("string", 0, "hi", <<>>),
     GoValue("chan", 0, "", <<>>), GoValue("nan", 0, "", <<>>)}

GoValues ==
    GoScalars \cup {GoValue("slice", 0, "", items) : items \in SeqsUpTo(GoScalars, MaxPairs)}

FlatArgs ==
    {[type |-> "flat", strs |-> ps] : ps \in SeqsUpTo(Keys \cup Exprs, 2 * MaxPairs)}
        \cup {[type |-> "flat", strs |-> <<k, e>>] :
                  k \in SpecialKeys, e \in SpecialExprs}

UrlFormats == {"/api", "/u/%d", "/u/%d/t/%d", "/s/%s"}

SseValues ==
    {Opt("contentType", "form"), OptRaw("openWhenHidden", "true"),
     IntArg(5), StringArg("x")}

SseArgs ==
    {[type |-> "sse", urlFormat |-> u, args |-> as] :
        u \in UrlFormats, as \in SeqsUpTo(SseValues, MaxArgs)}

SignalMaps == UNION {[D -> SigValues] : D \in SUBSET Keys}

SigMapArgs ==
    {[type |-> "sigmap", signals |-> m, modifiers |-> ms] :
        m \in SignalMaps, ms \in SeqsUpTo(Modifiers, MaxMods)}

JsonArgs == {[type |-> "json", key |-> k, value |-> v] : k \in Keys, v \in GoValues}

Texts == {"", "John", "it's", "he said \"hello\"", "a\\b", "\\\"", "x\ny"}

TextArgs == {[type |-> "text", key |-> k, text |-> v] : k \in {"name", "a"}, v \in Texts}

Patterns == {"", "/user/", "/t%d$/"}

FilterArgs ==
    {[type |-> "filter", filter |-> Filter(i, e), modifiers |-> ms] :
        i \in Patterns, e \in Patterns, ms \in SeqsUpTo(Modifiers, MaxMods)}

Args ==
    PairArgs \cup SignalArgs \cup NamedArgs \cup MapArgs
        \cup DurationArgs \cup IntArgs \cup FloatArgs \cup JsonArgs \cup FlatArgs
        \cup SseArgs \cup SigMapArgs \cup FilterArgs \cup TextArgs

-----------------------------------------------------------------------------
(* Initial state: the caller holds arguments and the attribute maps it was *)
(* given earlier (the arguments of Merge, or one map otherwise); no builder *)
(* was pooled yet and no call is in flight                                  *)

Procs == 1..NProcs

\* what a goroutine calls: buildPairs, Signals, mods or buildOpts on some
\* arguments
NoOp == [kind |-> "none"]

ConcOps ==
    {[kind |-> "pairs", f |-> "computed", pairs |-> <<[key |-> "a", expr |-> "$x"]>>],
     [kind |-> "signals", signals |-> <<[key |-> "a", value |-> "42"]>>],
     [kind |-> "mods", modifiers |-> <<ModDebounce, Leading>>],
     [kind |-> "opts", opts |-> <<OptRaw("openWhenHidden", "true")>>]}

Idle == [pc |-> "idle", op |-> NoOp, id |-> 0, i |-> 0, out |-> ""]

NoWork == [id \in {} |-> NewBuilder(id)]

\* no array allocated, no string returned
NoMem == [arrays |-> <<>>, at |-> [id \in {} |-> 0], kept |-> <<>>]

Init ==
    /\ arg \in Args
    /\ fn = ""
    /\ ret = NoCall
    /\ pool = {}
    /\ heap = IF arg.type = "maps" THEN arg.attrs ELSE <<val("data-show", "$a")>>
    /\ last = [ref |-> 0, set |-> 0]
    /\ calls = [p \in Procs |-> Idle]
    /\ work = NoWork
    /\ mem = NoMem

-----------------------------------------------------------------------------
(* Pair builders: Class, Attr, Style, Computed (attrs.go) *)

PairBuilder(name, attrName, f) ==
    /\ arg.type = "pairs"
    /\ \E b \in PoolGet :
         LET e == buildPairs(b, arg.pairs, f)
         IN  /\ ret' = Returned(OneAttr(attrName, StrVal(e.buf)))
             /\ pool' = PoolPut(b, e)
    /\ fn' = name
    /\ UNCHANGED <<arg, heap, last, calls, work, mem>>

Class == PairBuilder("Class", "data-class", "expr")
Attr == PairBuilder("Attr", "data-attr", "expr")
Style == PairBuilder("Style", "data-style", "expr")
Computed == PairBuilder("Computed", "data-computed", "computed")

Signals ==
    /\ arg.type = "signals"
    /\ \E b \in PoolGet :
         LET e == signalsBody(b, arg.signals)
         IN  /\ ret' = Returned(OneAttr("data-signals", StrVal(e.buf)))
             /\ pool' = PoolPut(b, e)
    /\ fn' = "Signals"
    /\ UNCHANGED <<arg, heap, last, calls, work, mem>>

\* A builder whose attribute name is made by on / plugin / keyed: the call
\* returns val(name, expr) for one outcome of the name helper
NameBuilder(fname, outcomes) ==
    /\ \E o \in outcomes :
         /\ ret' = Returned(val(o.s, arg.expr))
         /\ pool' = o.pool
    /\ fn' = fname
    /\ UNCHANGED <<arg, heap, last, calls, work, mem>>

OnClick == arg.type = "named" /\ NameBuilder("OnClick", on(eventClick, arg.modifiers))
OnEvent == arg.type = "named" /\ NameBuilder("OnEvent", on(arg.name, arg.modifiers))
OnIntersect ==
    arg.type = "named" /\ NameBuilder("OnIntersect", plugin(attrOnIntersect, arg.modifiers))
ClassKey ==
    arg.type = "named" /\ NameBuilder("ClassKey", keyed(attrClass, arg.name, arg.modifiers))

\* Builders of one fixed attribute name: val(prefix+attr, expr)
ValBuilder(fname, attr) ==
    /\ arg.type = "named"
    /\ ret' = Returned(val(prefix \o attr, arg.expr))
    /\ fn' = fname
    /\ UNCHANGED <<arg, pool, heap, last, calls, work, mem>>

Text == ValBuilder("Text", attrText)
Show == ValBuilder("Show", attrShow)

\* JSONSignals(filter, modifiers...): the name is made first; an empty filter
\* gives the boolean attribute, any other one the filter object
JSONSignals ==
    /\ arg.type = "filter"
    /\ \E o \in plugin(attrJSONSignals, arg.modifiers) :
         /\ ret' = Returned(IF arg.filter.Include = "" /\ arg.filter.Exclude = ""
                            THEN boolAttr(o.s)
                            ELSE val(o.s, toFilter(arg.filter)))
         /\ pool' = o.pool
    /\ fn' = "JSONSignals"
    /\ UNCHANGED <<arg, heap, last, calls, work, mem>>

\* mutant: an empty filter gives the boolean attribute here too
OnSignalPatchFilter_BoolWhenEmpty ==
    /\ arg.type = "filter"
    /\ ret' = Returned(IF arg.filter.Include = "" /\ arg.filter.Exclude = ""
                       THEN boolAttr(prefix \o attrOnSignalPatchFilt)
                       ELSE val(prefix \o attrOnSignalPatchFilt, toFilter(arg.filter)))
    /\ fn' = "OnSignalPatchFilter"
    /\ UNCHANGED <<arg, pool, heap, last, calls, work, mem>>

OnSignalPatchFilter ==
    /\ arg.type = "filter"
    /\ ret' = Returned(val(prefix \o attrOnSignalPatchFilt, toFilter(arg.filter)))
    /\ fn' = "OnSignalPatchFilter"
    /\ UNCHANGED <<arg, pool, heap, last, calls, work, mem>>

\* Merge of the maps at the addresses 1..n, as they are now
CallMerge ==
    /\ arg.type = "maps"
    /\ LET n == Len(arg.attrs)
           r == MergeAlloc(heap, [i \in 1..n |-> i])
       IN  /\ arg' = [arg EXCEPT !.attrs = SubSeq(heap, 1, n)]
           /\ ret' = Returned(r.heap[r.ref])
           /\ heap' = r.heap
           /\ last' = [ref |-> r.ref, set |-> 0]
    /\ fn' = "Merge"
    /\ UNCHANGED <<pool, calls, work, mem>>

\* After Merge the caller assigns into a map it holds: the first argument
\* or the result
SetAttr ==
    /\ arg.type = "maps"
    /\ fn = "Merge"
    /\ \E a \in {1, last.ref} :
         /\ heap' = [heap EXCEPT ![a] = CopyInto(@, OneAttr("data-show", StrVal("$b")))]
         /\ last' = [last EXCEPT !.set = a]
    /\ fn' = "SetAttr"
    /\ UNCHANGED <<arg, ret, pool, calls, work, mem>>

\* Signals(signals map[string]any, modifiers ...Modifier): the name is built
\* first, then toSignals(signals) panics or gives the value
SignalsV1 ==
    /\ arg.type = "sigmap"
    /\ \E o \in plugin(attrSignals, arg.modifiers) :
         LET t == toSignals(arg.signals)
         IN  /\ ret' = IF t.how = "panic" THEN t ELSE Returned(val(o.s, t.val))
             /\ pool' = o.pool
    /\ fn' = "SignalsV1"
    /\ UNCHANGED <<arg, heap, last, calls, work, mem>>

\* A call of a function that touches no shared state
PureCall(fname, type, outcome) ==
    /\ arg.type = type
    /\ ret' = outcome
    /\ fn' = fname
    /\ UNCHANGED <<arg, pool, heap, last, calls, work, mem>>

CallDuration == arg.type = "duration" /\ PureCall("Duration", "duration", Duration(arg.d))
CallMs == arg.type = "int" /\ PureCall("Ms", "int", Ms(arg.n))
CallSeconds == arg.type = "int" /\ PureCall("Seconds", "int", Seconds(arg.n))
CallThreshold == arg.type = "float" /\ PureCall("Threshold", "float", Threshold(arg.t))
CallDurationSafe ==
    arg.type = "duration" /\ PureCall("DurationSafe", "duration", DurationSafe(arg.d))
CallMsSafe == arg.type = "int" /\ PureCall("MsSafe", "int", MsSafe(arg.n))
CallSecondsSafe == arg.type = "int" /\ PureCall("SecondsSafe", "int", SecondsSafe(arg.n))
CallThresholdSafe ==
    arg.type = "float" /\ PureCall("ThresholdSafe", "float", ThresholdSafe(arg.t))

CallString ==
    arg.type = "text" /\ PureCall("String", "text", Returned(String(arg.key, arg.text)))

CallJSON == arg.type = "json" /\ PureCall("JSON", "json", JSON(arg.key, arg.value))
CallJSONSafe ==
    arg.type = "json" /\ PureCall("JSONSafe", "json", JSONSafe(arg.key, arg.value))

\* The builders that take key, expr, key, expr, ... as plain strings: the
\* argument toObject(pairs) / toComputed(pairs) of val panics or gives the value
FlatBuilder(fname, attrName, object) ==
    /\ arg.type = "flat"
    /\ ret' = IF object.how = "panic" THEN object
              ELSE Returned(val(prefix \o attrName, object.val))
    /\ fn' = fname
    /\ UNCHANGED <<arg, pool, heap, last, calls, work, mem>>

ClassV1 == FlatBuilder("ClassV1", attrClass, toObject(arg.strs))
AttrV1 == FlatBuilder("AttrV1", attrAttr, toObject(arg.strs))
StyleV1 == FlatBuilder("StyleV1", attrStyle, toObject(arg.strs))
ComputedV1 == FlatBuilder("ComputedV1", attrComputed, toComputed(arg.strs))

\* Get / Post / Put / Patch / Delete: return sseAction(verb, urlFormat, args)
SseBuilder(fname, verb) ==
    /\ arg.type = "sse"
    /\ \E o \in sseAction(verb, arg.urlFormat, arg.args) :
         /\ ret' = Returned(o.s)
         /\ pool' = o.pool
    /\ fn' = fname
    /\ UNCHANGED <<arg, heap, last, calls, work, mem>>

Get == SseBuilder("Get", actionGet)
Post == SseBuilder("Post", actionPost)
Put == SseBuilder("Put", actionPut)
Patch == SseBuilder("Patch", actionPatch)
Delete == SseBuilder("Delete", actionDelete)

\* sync.Pool may drop an idle item at any time (garbage collection)
PoolGC ==
    /\ \E b \in pool : pool' = pool \ {b}
    /\ UNCHANGED <<arg, fn, ret, heap, last, calls, work, mem>>

Next ==
    \/ Class
    \/ Attr
    \/ Style
    \/ Computed
    \/ Signals
    \/ OnClick
    \/ OnEvent
    \/ OnIntersect
    \/ ClassKey
    \/ Text
    \/ Show
    \/ JSONSignals
    \/ OnSignalPatchFilter
    \/ CallMerge
    \/ SetAttr
    \/ SignalsV1
    \/ CallDuration
    \/ CallMs
    \/ CallSeconds
    \/ CallThreshold
    \/ CallDurationSafe
    \/ CallMsSafe
    \/ CallSecondsSafe
    \/ CallThresholdSafe
    \/ CallString
    \/ CallJSON
    \/ CallJSONSafe
    \/ ClassV1
    \/ AttrV1
    \/ StyleV1
    \/ ComputedV1
    \/ Get
    \/ Post
    \/ Put
    \/ Patch
    \/ Delete
    \/ PoolGC

Spec == Init /\ [][Next]_vars

-----------------------------------------------------------------------------
(* Concurrent calls: each goroutine runs a call statement by statement     *)

\* the number of the first and of the last write step of a call
FirstStep(op) == IF op.kind = "mods" THEN 1 ELSE 0

LastStep(op) ==
    CASE op.kind = "pairs" -> Len(op.pairs) + 1
      [] op.kind = "signals" -> Len(op.signals) + 1
      [] op.kind = "mods" -> Len(op.modifiers)
      [] op.kind = "opts" -> Len(op.opts) + 1

\* step 0 of buildPairs and Signals: the capacity, Grow and the opening brace
OpenObject(b, capacity) ==
    BWrite(IF b.cap < capacity THEN BGrow(b, capacity - Len(b.buf)) ELSE b, "{")

\* write step i of the call op on the builder b: the opening brace (with the
\* capacity computed and reserved before it), one turn of the loop, or the
\* closing brace
Step(op, i, b) ==
    CASE op.kind = "pairs" ->
            IF i = 0 THEN OpenObject(b, PairsCapacity(op.pairs, op.f, 1, 2))
            ELSE IF i <= Len(op.pairs)
            THEN WritePairs(SubSeq(op.pairs, 1, i), op.f, i, b)
            ELSE BWrite(b, "}")
      [] op.kind = "signals" ->
            IF i = 0 THEN OpenObject(b, SignalsCapacity(op.signals, 1, 2))
            ELSE IF i <= Len(op.signals)
            THEN WriteSignals(SubSeq(op.signals, 1, i), i, b)
            ELSE BWrite(b, "}")
      [] op.kind = "mods" -> WriteMods(SubSeq(op.modifiers, 1, i), i, b)
      [] op.kind = "opts" ->
            IF i = 0 THEN BWrite(b, "{")
            ELSE IF i <= Len(op.opts)
            THEN WriteOpts(SubSeq(op.opts, 1, i), i, b)
            ELSE BWrite(b, "}")

\* goroutine p holds the builder it took
Holding(p) == calls[p].pc \in {"write", "string", "put"}

\* a goroutine enters buildPairs, Signals, mods or buildOpts
Begin(p) ==
    /\ calls[p].pc \in {"idle", "done"}
    /\ \E op \in ConcOps :
         calls' = [calls EXCEPT ![p] = [pc |-> "get", op |-> op, id |-> 0,
                                        i |-> FirstStep(op), out |-> ""]]
    /\ UNCHANGED <<arg, fn, ret, pool, heap, last, work, mem>>

\* b := sharedBuilderPool.Get().(*strings.Builder)
Acquire(p) ==
    /\ calls[p].pc = "get"
    /\ \E b \in PoolGet :
         /\ pool' = PoolTake(b)
         /\ work' = IF b.id \in DOMAIN work THEN work ELSE (b.id :> b) @@ work
         /\ calls' = [calls EXCEPT ![p].pc = "write", ![p].id = b.id]
    /\ UNCHANGED <<arg, fn, ret, heap, last, mem>>

\* one write step, on the builder at the address the goroutine holds
WriteStep(p) ==
    /\ calls[p].pc = "write"
    /\ LET c == calls[p]
       IN  /\ work' = [work EXCEPT ![c.id] = Step(c.op, c.i, @)]
           /\ calls' = IF c.i = LastStep(c.op)
                       THEN [calls EXCEPT ![p].pc = "string"]
                       ELSE [calls EXCEPT ![p].i = c.i + 1]
    /\ UNCHANGED <<arg, fn, ret, pool, heap, last, mem>>

\* return b.String(): the result is read before the deferred function runs
ReadString(p) ==
    /\ calls[p].pc = "string"
    /\ calls' = [calls EXCEPT ![p].pc = "put", ![p].out = work[calls[p].id].buf]
    /\ UNCHANGED <<arg, fn, ret, pool, heap, last, work, mem>>

\* the deferred b.Reset(); sharedBuilderPool.Put(b), and the return; the
\* builder stays in work only if another goroutine holds the same address
Release(p) ==
    /\ calls[p].pc = "put"
    /\ LET id == calls[p].id
       IN  /\ pool' = PoolPut(work[id], work[id])
           /\ work' = IF \E q \in Procs \ {p} : Holding(q) /\ calls[q].id = id
                      THEN [work EXCEPT ![id] = BReset(@)]
                      ELSE [x \in DOMAIN work \ {id} |-> work[x]]
    /\ calls' = [calls EXCEPT ![p].pc = "done", ![p].id = 0, ![p].i = 0]
    /\ UNCHANGED <<arg, fn, ret, heap, last, mem>>

InitConc ==
    /\ arg = [type |-> "none"]
    /\ fn = ""
    /\ ret = NoCall
    /\ pool = {}
    /\ heap = <<>>
    /\ last = [ref |-> 0, set |-> 0]
    /\ calls = [p \in Procs |-> Idle]
    /\ work = NoWork
    /\ mem = NoMem

NextConc ==
    \/ \E p \in Procs : Begin(p)
    \/ \E p \in Procs : Acquire(p)
    \/ \E p \in Procs : WriteStep(p)
    \/ \E p \in Procs : ReadString(p)
    \/ \E p \in Procs : Release(p)
    \/ PoolGC

SpecConc == InitConc /\ [][NextConc]_vars

-----------------------------------------------------------------------------
(* The memory behind the strings: b.String() returns a string that points  *)
(* into the builder's array (no copy).  mem.arrays[a] is the array at      *)
(* address a (its bytes written so far), mem.at[id] the address of the     *)
(* array of the builder id (0 for nil), mem.kept the strings returned so   *)
(* far: [id: the builder, addr, len: the string, text: its bytes when it   *)
(* was returned].                                                           *)

\* what is called: the calls of SpecConc and a pair builder without pairs
MemOps == ConcOps \cup {[kind |-> "pairs", f |-> "expr", pairs |-> <<>>]}

\* the builder b as it is when the call op reads b.String()
Body(op, b) ==
    CASE op.kind = "pairs" -> buildPairs(b, op.pairs, op.f)
      [] op.kind = "signals" -> signalsBody(b, op.signals)
      [] op.kind = "mods" -> WriteMods(op.modifiers, 1, b)
      [] op.kind = "opts" -> buildOpts(b, op.opts)

\* the address of the builder's array after the writes (or the Reset) that
\* took it from b0, with its array at a, to b1: nil once the buffer is
\* dropped, the same array while the capacity is the same, the array at
\* fresh when append or Grow had to allocate
Backing(b0, b1, a, fresh) ==
    IF b1.cap = 0 THEN 0 ELSE IF b1.cap = b0.cap THEN a ELSE fresh

\* the arrays once text stands at the start of the array at address a
Store(arrays, a, text) ==
    IF a > Len(arrays) THEN Append(arrays, text)
    ELSE [arrays EXCEPT ![a] = text \o SubSeq(@, Len(text) + 1, Len(@))]

\* the bytes of the string s = [addr, len], read now
Content(arrays, s) == SubSeq(arrays[s.addr], 1, s.len)

\* one call of buildPairs, Signals, mods or buildOpts: the builder comes
\* from the pool (New allocates the array of a new one), the writes go to
\* its array, the string returned points into it, the deferred function
\* resets the builder and puts it back
BuilderCall ==
    /\ Len(mem.kept) < MaxKept
    /\ \E op \in MemOps, b \in PoolGet :
         LET arrays0 == IF b \in pool THEN mem.arrays ELSE Append(mem.arrays, "")
             a0 == IF b \in pool THEN mem.at[b.id] ELSE Len(arrays0)
             e == Body(op, b)
             a1 == Backing(b, e, a0, Len(arrays0) + 1)
             arrays1 == Store(arrays0, a1, e.buf)
             s == [id |-> b.id, addr |-> a1, len |-> Len(e.buf), text |-> e.buf]
         IN  /\ ret' = Returned(Content(arrays1, s))
             /\ pool' = PoolPut(b, e)
             /\ mem' = [arrays |-> arrays1,
                        at |-> (b.id :> Backing(e, BReset(e), a1, 0)) @@ mem.at,
                        kept |-> Append(mem.kept, s)]
             /\ fn' = op.kind
    /\ UNCHANGED <<arg, heap, last, calls, work>>

InitMem ==
    /\ arg = [type |-> "none"]
    /\ fn = ""
    /\ ret = NoCall
    /\ pool = {}
    /\ heap = <<>>
    /\ last = [ref |-> 0, set |-> 0]
    /\ calls = [p \in Procs |-> Idle]
    /\ work = NoWork
    /\ mem = NoMem

NextMem ==
    \/ BuilderCall
    \/ PoolGC

SpecMem == InitMem /\ [][NextMem]_vars

-----------------------------------------------------------------------------
(* Helpers of the properties *)

\* the elements of a sequence of strings joined by sep
RECURSIVE Join(_, _)
Join(items, sep) ==
    IF Len(items) = 0 THEN ""
    ELSE IF Len(items) = 1 THEN items[1]
    ELSE Join(SubSeq(items, 1, Len(items) - 1), sep) \o sep \o items[Len(items)]

\* the only value of a one-entry attribute map
TheValue(m) == m[CHOOSE k \in DOMAIN m : TRUE]

-----------------------------------------------------------------------------
(* C1: Class, Attr and Style return "{" + "'k1': e1" + ", " + ... + "}"  *)
(* for the typed pairs they are given, in input order, "{}" for no pair,  *)
(* and Computed returns the same shape with each ei as "() => " + ei.      *)

QuotedPair(p, wrap) == "'" \o p.key \o "': " \o wrap \o p.expr

C1_PairObject ==
    fn \in {"Class", "Attr", "Style", "Computed"} =>
        LET wrap == IF fn = "Computed" THEN "() => " ELSE ""
            items == [i \in 1..Len(arg.pairs) |-> QuotedPair(arg.pairs[i], wrap)]
        IN  /\ ret.how = "return"
            /\ Cardinality(DOMAIN ret.val) = 1
            /\ TheValue(ret.val) = StrVal("{" \o Join(items, ", ") \o "}")
            /\ (Len(arg.pairs) = 0 => TheValue(ret.val).s = "{}")

C1_Witness ==
    /\ fn = "Computed"
    /\ Len(arg.pairs) = 2
    /\ ret.val["data-computed"].s = "{'a': () => $x, 'b-c': () => !$y}"

-----------------------------------------------------------------------------
(* C2: Signals returns the one-entry map data-signals |-> "{k1: v1, ...}"  *)
(* with unquoted keys and the signals in input order; "{}" for no signal.  *)

C2_SignalsObject ==
    fn = "Signals" =>
        LET items == [i \in 1..Len(arg.signals) |->
                         arg.signals[i].key \o ": " \o arg.signals[i].value]
        IN  /\ ret.how = "return"
            /\ DOMAIN ret.val = {"data-signals"}
            /\ ret.val["data-signals"] = StrVal("{" \o Join(items, ", ") \o "}")
            /\ (Len(arg.signals) = 0 => ret.val["data-signals"].s = "{}")

C2_Witness ==
    /\ fn = "Signals"
    /\ Len(arg.signals) = 2
    /\ ret.val["data-signals"].s = "{a: 42, b-c: \"hi\"}"

-----------------------------------------------------------------------------
(* C3: the attribute name is "data-on:" + event + m1 ... mn for DOM event  *)
(* handlers, "data-" + name + m1 ... mn for plugin attributes and          *)
(* "data-" + name + ":" + key + m1 ... mn for keyed attributes, with the   *)
(* modifiers in the caller's order, not sorted, de-duplicated or separated. *)

NameStem ==
    CASE fn = "OnClick" -> "data-on:click"
      [] fn = "OnEvent" -> "data-on:" \o arg.name
      [] fn = "OnIntersect" -> "data-on-intersect"
      [] fn = "ClassKey" -> "data-class:" \o arg.name

C3_AttributeName ==
    fn \in {"OnClick", "OnEvent", "OnIntersect", "ClassKey"} =>
        /\ ret.how = "return"
        /\ DOMAIN ret.val = {NameStem \o Join(arg.modifiers, "")}
        /\ (fn = "OnClick" /\ arg.modifiers = <<ModDebounce, ".300ms">>
              => DOMAIN ret.val = {"data-on:click__debounce.300ms"})

C3_Witness ==
    /\ fn = "ClassKey"
    /\ arg.name = "x"
    /\ arg.modifiers = <<Leading, Leading>>
    /\ DOMAIN ret.val = {"data-class:x.leading.leading"}

-----------------------------------------------------------------------------
(* C4: Merge returns a map whose keys are the union of the inputs' keys,   *)
(* each mapped to its value in the last input that has it; Merge() is      *)
(* empty and the result has at most as many keys as the inputs together.   *)

LastWith(attrs, k) ==
    CHOOSE i \in 1..Len(attrs) :
        /\ k \in DOMAIN attrs[i]
        /\ \A j \in (i + 1)..Len(attrs) : k \notin DOMAIN attrs[j]

RECURSIVE SumSizes(_)
SumSizes(attrs) ==
    IF attrs = <<>> THEN 0 ELSE Cardinality(DOMAIN Head(attrs)) + SumSizes(Tail(attrs))

C4_MergeLastWins ==
    fn = "Merge" =>
        /\ ret.how = "return"
        /\ DOMAIN ret.val = UNION {DOMAIN arg.attrs[i] : i \in 1..Len(arg.attrs)}
        /\ \A k \in DOMAIN ret.val : ret.val[k] = arg.attrs[LastWith(arg.attrs, k)][k]
        /\ (Len(arg.attrs) = 0 => DOMAIN ret.val = {})
        /\ Cardinality(DOMAIN ret.val) <= SumSizes(arg.attrs)

C4_Witness ==
    /\ fn = "Merge"
    /\ Len(arg.attrs) = 3
    /\ "data-show" \in DOMAIN arg.attrs[1]
    /\ "data-show" \in DOMAIN arg.attrs[2]
    /\ "data-show" \notin DOMAIN arg.attrs[3]
    /\ arg.attrs[1]["data-show"] # arg.attrs[2]["data-show"]
    /\ ret.val["data-show"] = arg.attrs[2]["data-show"]
    /\ Cardinality(DOMAIN ret.val) < SumSizes(arg.attrs)

-----------------------------------------------------------------------------
(* Helpers of the numeric properties *)

DigitChars == {"0", "1", "2", "3", "4", "5", "6", "7", "8", "9"}

DigitValue ==
    [c \in DigitChars |->
        CASE c = "0" -> 0 [] c = "1" -> 1 [] c = "2" -> 2 [] c = "3" -> 3
          [] c = "4" -> 4 [] c = "5" -> 5 [] c = "6" -> 6 [] c = "7" -> 7
          [] c = "8" -> 8 [] c = "9" -> 9]

CharAt(s, i) == SubSeq(s, i, i)

AllDigits(s) == \A i \in 1..Len(s) : CharAt(s, i) \in DigitChars

RECURSIVE DecimalValue(_)
DecimalValue(s) ==
    IF Len(s) = 0 THEN 0
    ELSE 10 * DecimalValue(SubSeq(s, 1, Len(s) - 1)) + DigitValue[CharAt(s, Len(s))]

\* s is the decimal numeral of n >= 0: digits only, no leading zero
IsDecimalOf(s, n) ==
    /\ Len(s) >= 1
    /\ AllDigits(s)
    /\ Len(s) > 1 => CharAt(s, 1) # "0"
    /\ DecimalValue(s) = n

\* s = "." + decimal(n) + unit
IsCountTag(s, n, unit) ==
    /\ Len(s) >= 2 + Len(unit)
    /\ CharAt(s, 1) = "."
    /\ SubSeq(s, Len(s) - Len(unit) + 1, Len(s)) = unit
    /\ IsDecimalOf(SubSeq(s, 2, Len(s) - Len(unit)), n)

\* 0 < t <= 1
InUnitRange(t) ==
    /\ t.kind = "num"
    /\ t.n > 0 \/ (t.n = 0 /\ ~t.exact)
    /\ t.n < Grid \/ (t.n = Grid /\ t.exact)

\* the float64 values of the literals 1, 0.25, 0.333, 0.335, 0.01, 0.99,
\* 0.001 and 0.999: 0.25 and 1 are exact; 0.333, 0.335, 0.01 and 0.001 lie
\* just above and 0.99 and 0.999 just below the decimal they are written as
T_1 == Num(Grid, TRUE)
T_025 == Num(50 * Refine, TRUE)
T_0333 == Num((666 * Refine) \div 10, FALSE)
T_0335 == Num(67 * Refine, FALSE)
T_001 == Num(2 * Refine, FALSE)
T_099 == Num(198 * Refine - 1, FALSE)
T_0001 == Num((2 * Refine) \div 10, FALSE)
T_0999 == Num((1998 * Refine) \div 10, FALSE)

\* t < 0.995 (0.995 itself is no float64)
Below995(t) == t.kind = "num" /\ t.n < 199 * Refine

\* ^\.(?:\d{2}|100)$
MatchesThresholdShape(s) ==
    \/ s = ".100"
    \/ /\ Len(s) = 3
       /\ CharAt(s, 1) = "."
       /\ CharAt(s, 2) \in DigitChars
       /\ CharAt(s, 3) \in DigitChars

-----------------------------------------------------------------------------
(* C5: for every d >= 0, Duration(d) equals Ms(n) with n the whole         *)
(* millisecond nearest to d, half a millisecond rounding up: half a        *)
(* millisecond gives ".1ms", a tenth of one ".0ms", 0 gives ".0ms".        *)

NearestMs(d) == (2 * d + Millisecond) \div (2 * Millisecond)

C5_DurationNearestMs ==
    (fn = "Duration" /\ arg.d >= 0) =>
        /\ ret = Ms(NearestMs(arg.d))
        /\ (2 * arg.d = Millisecond => ret.val = ".1ms")
        /\ (10 * arg.d = Millisecond => ret.val = ".0ms")
        /\ (arg.d = 0 => ret.val = ".0ms")

-----------------------------------------------------------------------------
(* C6: for every n >= 0, Ms(n) is "." + decimal(n) + "ms" and Seconds(n)   *)
(* is "." + decimal(n) + "s"; Ms(0) = ".0ms" and Seconds(0) = ".0s".       *)

C6_CountTags ==
    /\ (fn = "Ms" /\ arg.n >= 0) =>
          /\ ret.how = "return"
          /\ IsCountTag(ret.val, arg.n, "ms")
          /\ (arg.n = 0 => ret.val = ".0ms")
    /\ (fn = "Seconds" /\ arg.n >= 0) =>
          /\ ret.how = "return"
          /\ IsCountTag(ret.val, arg.n, "s")
          /\ (arg.n = 0 => ret.val = ".0s")

C6_Witness ==
    /\ fn = "Ms"
    /\ arg.n = 300
    /\ ret.val = ".300ms"

-----------------------------------------------------------------------------
(* C7: Duration, Ms and Seconds panic exactly when the argument is         *)
(* negative and Threshold exactly when the argument is not in (0, 1]; no   *)
(* call with an argument outside the accepted domain returns a Modifier.   *)

C7_PanicExactlyOutsideDomain ==
    /\ fn = "Duration" => (ret.how = "panic" <=> arg.d < 0)
    /\ fn \in {"Ms", "Seconds"} => (ret.how = "panic" <=> arg.n < 0)
    /\ fn = "Threshold" => (ret.how = "panic" <=> ~InUnitRange(arg.t))
    /\ fn \in {"Duration", "Ms", "Seconds", "Threshold"} => ret.how \in {"panic", "return"}

-----------------------------------------------------------------------------
(* C8 as stated: for all t with 0 < t <= 1, Threshold(t) matches           *)
(* ^\.(?:\d{2}|100)$.                                                      *)

C8_ShapeOnWholeRange ==
    (fn = "Threshold" /\ InUnitRange(arg.t)) =>
        /\ ret.how = "return"
        /\ MatchesThresholdShape(ret.val)

(* C8 amended: for all t with 0 < t < 0.995, and for t = 1, Threshold(t)  *)
(* matches ^\.(?:\d{2}|100)$; for 0.995 <= t < 1 it is "1.00".  1 gives    *)
(* ".100", 0.25 ".25", 0.333 ".33" and 0.335 ".34".                        *)

C8_ShapeBelowRoundingToOne ==
    (fn = "Threshold" /\ InUnitRange(arg.t)) =>
        /\ ret.how = "return"
        /\ (Below995(arg.t) \/ arg.t = T_1) => MatchesThresholdShape(ret.val)
        /\ (~Below995(arg.t) /\ arg.t # T_1) => ret.val = "1.00"
        /\ (arg.t = T_1 => ret.val = ".100")
        /\ (arg.t = T_025 => ret.val = ".25")
        /\ (arg.t = T_0333 => ret.val = ".33")
        /\ (arg.t = T_0335 => ret.val = ".34")

C8_Witness ==
    /\ fn = "Threshold"
    /\ arg.t = T_0335
    /\ ret.val = ".34"

-----------------------------------------------------------------------------
(* C9: for 0 < t < 1, Threshold(t) is t with exactly two fractional        *)
(* digits, rounded to the nearest hundredth, less one leading "0" if there *)
(* is one: 0.01 gives ".01", 0.99 ".99", 0.001 ".00" and 0.999 "1.00".     *)

\* h hundredths are nearest to t: t lies within half a hundredth of h/100
NearestHundredth(t, h) ==
    LET u == Grid \div 100
        lo == t.n
        hi == IF t.exact THEN t.n ELSE t.n + 1
    IN  u * (2 * h - 1) <= 2 * lo /\ 2 * hi <= u * (2 * h + 1)

TwoDigitChars == <<"0", "1", "2", "3", "4", "5", "6", "7", "8", "9">>

\* h hundredths with two fractional digits
Fixed2(h) ==
    (IF h >= 100 THEN "1" ELSE "0") \o "."
        \o TwoDigitChars[((h % 100) \div 10) + 1] \o TwoDigitChars[(h % 10) + 1]

\* s is full less one leading "0", if full has one
LessOneLeadingZero(s, full) ==
    IF CharAt(full, 1) = "0" THEN full = "0" \o s ELSE s = full

C9_TwoDigitsLessLeadingZero ==
    (fn = "Threshold" /\ InUnitRange(arg.t) /\ arg.t # T_1) =>
        /\ ret.how = "return"
        /\ \E h \in 0..100 :
              /\ NearestHundredth(arg.t, h)
              /\ LessOneLeadingZero(ret.val, Fixed2(h))
        /\ (arg.t = T_001 => ret.val = ".01")
        /\ (arg.t = T_099 => ret.val = ".99")
        /\ (arg.t = T_0001 => ret.val = ".00")
        /\ (arg.t = T_0999 => ret.val = "1.00")

C9_Witness ==
    /\ fn = "Threshold"
    /\ arg.t = T_0999
    /\ ret.val = "1.00"

-----------------------------------------------------------------------------
(* C10: DurationSafe, MsSafe, SecondsSafe and ThresholdSafe return a       *)
(* non-nil error for exactly the arguments on which Duration, Ms, Seconds  *)
(* and Threshold panic, and otherwise a nil error with the same Modifier.  *)

SameButSurfaced(safe, panicking) ==
    /\ safe.how \in {"error", "return"}
    /\ safe.how = "error" <=> panicking.how = "panic"
    /\ safe.how = "error" => safe.val = ""
    /\ safe.how = "return" => (panicking.how = "return" /\ safe.val = panicking.val)

-----------------------------------------------------------------------------
(* C11: for every key and value, JSONSafe returns an error exactly when    *)
(* JSON panics, which is when the value cannot be marshaled, and then      *)
(* returns the empty Signal with the error; otherwise both return the same *)
(* Signal (the key, the marshaled text) and JSONSafe's error is nil.       *)

\* what encoding/json accepts, said without running the encoder
Marshalable(v) ==
    /\ v.kind \notin {"chan", "func", "nan"}
    /\ \A i \in 1..Len(v.items) : v.items[i].kind \notin {"chan", "func", "nan"}

\* the outcomes p of JSON and s of JSONSafe on the arguments held
JSONAgree(p, s) ==
    /\ s.how = "error" <=> p.how = "panic"
    /\ p.how = "panic" <=> ~Marshalable(arg.value)
    /\ s.how = "error" =>
          /\ s.val = Signal("", "")
          /\ s.err # ""
          /\ s.err = p.err
    /\ s.how # "error" =>
          /\ s.how = "return" /\ p.how = "return"
          /\ s.err = ""
          /\ s.val = p.val
          /\ s.val.key = arg.key
          /\ s.val.value = Marshal(arg.value).text
          /\ arg.value = GoValue("string", 0, "<b>", <<>>)
                => s.val.value = "\"\\u003cb\\u003e\""
          /\ arg.value = GoValue("slice", 0, "", <<GoValue("int", -7, "", <<>>),
                                                   GoValue("nil", 0, "", <<>>)>>)
                => s.val.value = "[-7,null]"

C11_JSONSafeAgrees ==
    /\ fn = "JSONSafe" => JSONAgree(JSON(arg.key, arg.value), ret)
    /\ fn = "JSON" => JSONAgree(ret, JSONSafe(arg.key, arg.value))

C11_Witness ==
    /\ fn = "JSONSafe"
    /\ ret.how = "error"
    /\ arg.value.kind = "slice"
    /\ Len(arg.value.items) = 2
    /\ arg.value.items[2].kind = "chan"

-----------------------------------------------------------------------------
(* C12: the builders that take key, expr, key, expr, ... as plain strings  *)
(* (Class, Attr, Style, Computed) panic, returning no attribute map,       *)
(* exactly when the list has odd length; for every even-length list they   *)
(* render {'k1': v1, 'k2': v2}, the pairs in input order and separated by  *)
(* a comma and a space.                                                    *)

FlatName ==
    CASE fn = "ClassV1" -> "data-class"
      [] fn = "AttrV1" -> "data-attr"
      [] fn = "StyleV1" -> "data-style"
      [] fn = "ComputedV1" -> "data-computed"

-----------------------------------------------------------------------------
(* C17: the capacity that Signals and the pair builder (Class, Attr,       *)
(* Style, Computed) compute before writing equals exactly the byte length  *)
(* of the string they then write, for every list of pairs or signals.      *)

C17_CapacityExact ==
    /\ fn \in {"Class", "Attr", "Style", "Computed"} =>
          PairsCapacity(arg.pairs, IF fn = "Computed" THEN "computed" ELSE "expr", 1, 2)
              = Len(TheValue(ret.val).s)
    /\ fn = "Signals" =>
          SignalsCapacity(arg.signals, 1, 2) = Len(TheValue(ret.val).s)

-----------------------------------------------------------------------------
(* Helpers of the SSE action properties *)

SseVerbs == {"Get", "Post", "Put", "Patch", "Delete"}

VerbOf ==
    CASE fn = "Get" -> "get"
      [] fn = "Post" -> "post"
      [] fn = "Put" -> "put"
      [] fn = "Patch" -> "patch"
      [] fn = "Delete" -> "delete"

IsOption(a) == a.kind = "sseOption"
IsOperand(a) == a.kind # "sseOption"

\* the options / the other values among the arguments held, in their order
OptionsGiven == SelectSeq(arg.args, IsOption)
OperandsGiven == SelectSeq(arg.args, IsOperand)

RenderedOption(o) ==
    IF o.raw THEN o.key \o ": " \o o.value ELSE o.key \o ": '" \o o.value \o "'"

OptionsObject(opts) ==
    "{" \o Join([i \in 1..Len(opts) |-> RenderedOption(opts[i])], ", ") \o "}"

\* "@verb('url'": what precedes the options object or the closing parenthesis
ActionHead == "@" \o VerbOf \o "('" \o Sprintf(arg.urlFormat, OperandsGiven) \o "'"

-----------------------------------------------------------------------------
(* C19: Get, Post, Put, Patch and Delete split their variadic arguments by *)
(* type wherever they stand: the values made by Opt / OptRaw become the    *)
(* options, in their relative order, and all other values the operands of  *)
(* the URL format, in their relative order; the result is "@verb('url')"   *)
(* without an option and "@verb('url',{options})" with one.                *)

C19_ArgumentsPartitioned ==
    fn \in SseVerbs =>
        /\ ret.how = "return"
        /\ Len(OptionsGiven) = 0 => ret.val = ActionHead \o ")"
        /\ Len(OptionsGiven) > 0 =>
              ret.val = ActionHead \o "," \o OptionsObject(OptionsGiven) \o ")"
        /\ (fn = "Get" /\ arg.urlFormat = "/u/%d/t/%d"
                /\ arg.args = <<IntArg(5), Opt("contentType", "form"), IntArg(5)>>)
              => ret.val = "@get('/u/5/t/5',{contentType: 'form'})"
        /\ (fn = "Put" /\ arg.urlFormat = "/s/%s"
                /\ arg.args = <<StringArg("x"), IntArg(5)>>)
              => ret.val = "@put('/s/x%!(EXTRA int=5)')"
        /\ (fn = "Delete" /\ arg.urlFormat = "/s/%s"
                /\ arg.args = <<OptRaw("openWhenHidden", "true"), StringArg("x"),
                                Opt("contentType", "form")>>)
              => ret.val = "@delete('/s/x',{openWhenHidden: true, contentType: 'form'})"
        /\ (fn = "Post" /\ arg.urlFormat = "/api" /\ arg.args = <<>>)
              => ret.val = "@post('/api')"

C19_Witness ==
    /\ fn = "Patch"
    /\ Len(arg.args) = 3
    /\ IsOption(arg.args[1]) /\ IsOperand(arg.args[2]) /\ IsOption(arg.args[3])
    /\ arg.args[1] # arg.args[3]
    /\ arg.urlFormat = "/u/%d"

-----------------------------------------------------------------------------
(* C20: in the options object of an SSE action an option made by Opt is    *)
(* rendered key: 'value' and one made by OptRaw key: value; the options    *)
(* are joined by ", " in the order given and wrapped in braces.            *)

\* what the result holds between "@verb('url'," and the closing parenthesis
ObjectReturned == SubSeq(ret.val, Len(ActionHead) + 2, Len(ret.val) - 1)

C20_OptionsObject ==
    (fn \in SseVerbs /\ Len(OptionsGiven) > 0) =>
        LET opts == OptionsGiven
            items == [i \in 1..Len(opts) |->
                         IF opts[i] = Opt(opts[i].key, opts[i].value)
                         THEN opts[i].key \o ": '" \o opts[i].value \o "'"
                         ELSE opts[i].key \o ": " \o opts[i].value]
        IN  /\ ObjectReturned = "{" \o Join(items, ", ") \o "}"
            /\ opts = <<Opt("contentType", "form")>>
                  => ObjectReturned = "{contentType: 'form'}"
            /\ opts = <<OptRaw("openWhenHidden", "true")>>
                  => ObjectReturned = "{openWhenHidden: true}"
            /\ opts = <<Opt("contentType", "form"), OptRaw("openWhenHidden", "true")>>
                  => ObjectReturned = "{contentType: 'form', openWhenHidden: true}"

C20_Witness ==
    /\ fn = "Put"
    /\ OptionsGiven = <<OptRaw("openWhenHidden", "true"), Opt("contentType", "form")>>
    /\ ObjectReturned = "{openWhenHidden: true, contentType: 'form'}"

-----------------------------------------------------------------------------
(* C13 as stated: every builder call is atomic: a call that fails returns  *)
(* no attribute map at all, never a partly filled one, and leaves every    *)
(* attribute map returned before and the builder pool exactly as they were *)
(* before the call.                                                        *)

\* a step that is a call of the package which panicked or returned an error
FailedCall == ret'.how \in {"panic", "error"} /\ ~PoolGC

\* the outcome carries the zero value, no attribute map
NothingReturned == IF fn = "JSONSafe" THEN ret.val = Signal("", "") ELSE ret.val = ""

C13_FailureLeavesNoTrace ==
    [][FailedCall => (NothingReturned' /\ heap' = heap /\ pool' = pool)]_vars

(* C13 amended: a call that fails returns no attribute map at all and      *)
(* leaves every attribute map returned before as it was.  It leaves the    *)
(* builder pool as it was too, except that Signals(map, modifiers...) with *)
(* at least one modifier builds its attribute name before it marshals the  *)
(* map, so that a failure may leave one more idle builder in the pool;     *)
(* every builder in the pool is then still empty.                          *)

C13_FailureLeavesNoMap ==
    [][FailedCall =>
          /\ NothingReturned'
          /\ heap' = heap
          /\ (fn' = "SignalsV1" /\ arg.modifiers # <<>>) \/ pool' = pool
          /\ pool \subseteq pool'
          /\ Cardinality(pool' \ pool) <= 1
          /\ \A b \in pool' : b.buf = ""]_vars

C13_Witness ==
    /\ fn = "SignalsV1"
    /\ ret.how = "panic"
    /\ arg.modifiers # <<>>
    /\ Cardinality(pool) = 2
    /\ Len(heap) = 1

-----------------------------------------------------------------------------
(* C14: every call that takes a builder from the shared pool (buildPairs,  *)
(* Signals, mods, buildOpts) puts that same builder back, reset to length  *)
(* 0, before it returns; when no call is in flight no builder is checked   *)
(* out, and every builder in the pool is empty.                            *)

C14_BuildersReturned ==
    /\ [](/\ \A b \in pool : Len(b.buf) = 0
          /\ DOMAIN work = {calls[p].id : p \in {q \in Procs : Holding(q)}})
    /\ [][\A p \in Procs :
            (calls[p].pc = "put" /\ calls'[p].pc = "done")
                => \E b \in pool' : b.id = calls[p].id /\ Len(b.buf) = 0]_vars

C14_Witness ==
    /\ \A p \in Procs : calls[p].pc = "done"
    /\ DOMAIN work = {}
    /\ Cardinality(pool) = 2

-----------------------------------------------------------------------------
(* C15: under every interleaving of concurrent calls no builder is held by *)
(* two calls in flight at once, and each call returns exactly the string   *)
(* it returns when it runs alone.                                          *)

\* the string the call returns when nothing else runs
Alone(op) ==
    CASE op.kind = "pairs" -> buildPairs(NewBuilder(1), op.pairs, op.f).buf
      [] op.kind = "signals" -> signalsBody(NewBuilder(1), op.signals).buf
      [] op.kind = "mods" -> WriteMods(op.modifiers, 1, NewBuilder(1)).buf
      [] op.kind = "opts" -> buildOpts(NewBuilder(1), op.opts).buf

C15_ExclusiveBuilders ==
    /\ \A p, q \in Procs :
          (p # q /\ Holding(p) /\ Holding(q)) => calls[p].id # calls[q].id
    /\ \A p \in Procs : Holding(p) => \A b \in pool : b.id # calls[p].id
    /\ \A p \in Procs :
          calls[p].pc \in {"put", "done"} =>
              /\ calls[p].out = Alone(calls[p].op)
              /\ calls[p].op.kind = "mods" => calls[p].out = "__debounce.leading"
              /\ calls[p].op.kind = "pairs" => calls[p].out = "{'a': () => $x}"

C15_Witness ==
    /\ calls[1].pc = "write" /\ calls[2].pc = "write"
    /\ calls[1].op.kind = "pairs" /\ calls[2].op.kind = "signals"
    /\ work[calls[1].id].buf = "{'a': () => $x"
    /\ work[calls[2].id].buf = "{"

-----------------------------------------------------------------------------
(* C16: the pooled implementation returns what an implementation with a    *)
(* fresh, empty buffer per call returns: the result of a call depends      *)
(* neither on what the pool holds nor on the calls made before.            *)

C16_PoolingUnobservable ==
    /\ fn \in {"Class", "Attr", "Style", "Computed"} =>
          TheValue(ret.val).s
              = buildPairs(LocalBuilder, arg.pairs,
                           IF fn = "Computed" THEN "computed" ELSE "expr").buf
    /\ fn = "Signals" =>
          TheValue(ret.val).s = signalsBody(LocalBuilder, arg.signals).buf
    /\ fn \in {"OnClick", "OnEvent", "OnIntersect", "ClassKey"} =>
          ret.val = val(NameStem \o WriteMods(arg.modifiers, 1, LocalBuilder).buf, arg.expr)
    /\ (fn = "SignalsV1" /\ ret.how = "return") =>
          DOMAIN ret.val
              = {"data-signals" \o WriteMods(arg.modifiers, 1, LocalBuilder).buf}
    /\ (fn \in SseVerbs /\ Len(OptionsGiven) > 0) =>
          ret.val = ActionHead \o "," \o buildOpts(LocalBuilder, OptionsGiven).buf \o ")"

C16_Witness ==
    /\ fn = "Computed"
    /\ Len(arg.pairs) = 2
    /\ Cardinality(pool) = 2

-----------------------------------------------------------------------------
(* C18: Merge returns a map it has just created and copies the entries     *)
(* into it: it leaves every input map unchanged, a later change to the     *)
(* returned map changes no input map, and a later change to an input map   *)
(* does not change the returned map.                                       *)

C18_MergeCopies ==
    /\ fn \in {"Merge", "SetAttr"} =>
          /\ last.ref \notin 1..Len(arg.attrs)
          /\ last.ref \in 1..Len(heap)
    /\ fn = "Merge" =>
          /\ \A i \in 1..Len(arg.attrs) : heap[i] = arg.attrs[i]
          /\ heap[last.ref] = ret.val
    /\ fn = "SetAttr" =>
          /\ \A i \in 1..Len(arg.attrs) : i # last.set => heap[i] = arg.attrs[i]
          /\ last.set # last.ref => heap[last.ref] = ret.val
          /\ heap[last.set]["data-show"] = StrVal("$b")

C18_Witness ==
    /\ fn = "SetAttr"
    /\ last.set = last.ref
    /\ Len(arg.attrs) = 2
    /\ "data-show" \in DOMAIN heap[1]
    /\ heap[1]["data-show"] = StrVal("$a")
    /\ heap[last.ref]["data-show"] = StrVal("$b")

-----------------------------------------------------------------------------
(* C21: for every urlFormat called with no argument other than options,    *)
(* Get, Post, Put, Patch and Delete put urlFormat unchanged between the    *)
(* single quotes: the result is "@verb('" + urlFormat + "')", with the     *)
(* options object before the closing parenthesis if there is an option.    *)

C21_UrlUnchangedWithoutOperands ==
    (fn \in SseVerbs /\ Len(OperandsGiven) = 0) =>
        ret.val = "@" \o VerbOf \o "('" \o arg.urlFormat \o "'"
                      \o (IF Len(OptionsGiven) = 0 THEN ""
                          ELSE "," \o OptionsObject(OptionsGiven))
                      \o ")"


-----------------------------------------------------------------------------
(* C22: every attribute builder other than Merge returns a map of exactly  *)
(* one entry, whatever the expressions and modifiers, and the value of the *)
(* entry is a string or the boolean true.                                   *)

AttributeBuilders ==
    {"Class", "Attr", "Style", "Computed", "Signals", "OnClick", "OnEvent",
     "OnIntersect", "ClassKey", "Text", "Show", "JSONSignals",
     "OnSignalPatchFilter", "ClassV1", "AttrV1", "StyleV1", "ComputedV1",
     "SignalsV1"}

\* C22: a returning attribute builder gives one entry, a string or true
C22_OneEntry ==
    (fn \in AttributeBuilders /\ ret.how = "return") =>
        /\ Cardinality(DOMAIN ret.val) = 1
        /\ TheValue(ret.val).t \in {"str", "bool"}

\* a boolean attribute under a name with two modifiers
C22_Witness ==
    /\ fn = "JSONSignals"
    /\ Len(arg.modifiers) = 2
    /\ ret.how = "return"
    /\ Cardinality(DOMAIN ret.val) = 1
    /\ TheValue(ret.val) = BoolVal

-----------------------------------------------------------------------------
(* C23: JSONSignals gives the boolean true exactly when Include and        *)
(* Exclude are both empty; otherwise the value is the filter object with   *)
(* the non-empty fields only, include first, the patterns as given.        *)

\* C23: true for the empty filter, else {include: I}, {exclude: E} or
\* {include: I, exclude: E}
C23_JSONSignalsValue ==
    fn = "JSONSignals" =>
        LET I == arg.filter.Include
            E == arg.filter.Exclude
            v == TheValue(ret.val)
        IN  /\ ret.how = "return"
            /\ v = BoolVal <=> (I = "" /\ E = "")
            /\ (I # "" /\ E = "") => v = StrVal("{include: " \o I \o "}")
            /\ (I = "" /\ E # "") => v = StrVal("{exclude: " \o E \o "}")
            /\ (I # "" /\ E # "") =>
                   v = StrVal("{include: " \o I \o ", exclude: " \o E \o "}")

C23_Witness ==
    /\ fn = "JSONSignals"
    /\ arg.filter = Filter("/user/", "/t%d$/")
    /\ ret.val = OneAttr("data-json-signals",
                         StrVal("{include: /user/, exclude: /t%d$/}"))

-----------------------------------------------------------------------------
(* C30: OnSignalPatchFilter with the empty filter returns the string "{}"  *)
(* under data-on-signal-patch-filter, never the boolean true, whereas      *)
(* JSONSignals with the same filter returns the boolean true.              *)

EmptyFilter == arg.type = "filter" /\ arg.filter = Filter("", "")

\* C30: the empty filter is "{}" for OnSignalPatchFilter, true for JSONSignals
C30_EmptyFilter ==
    /\ (fn = "OnSignalPatchFilter" /\ EmptyFilter) =>
           ret = Returned(OneAttr("data-on-signal-patch-filter", StrVal("{}")))
    /\ (fn = "JSONSignals" /\ EmptyFilter) =>
           (ret.how = "return" /\ TheValue(ret.val) = BoolVal)

C30_Witness ==
    /\ fn = "OnSignalPatchFilter"
    /\ EmptyFilter
    /\ ret.how = "return"
    /\ TheValue(ret.val) = StrVal("{}")

-----------------------------------------------------------------------------
(* C24: nothing is escaped or sanitized: every key and expression passed   *)
(* to a pair builder or to a single-value builder appears in the output    *)
(* byte for byte, quotes, braces and commas included.                      *)

\* the key and the expression of the i-th pair, for a typed or a flat list
KeyGiven(i) == IF arg.type = "pairs" THEN arg.pairs[i].key ELSE arg.strs[2 * i - 1]
ExprGiven(i) == IF arg.type = "pairs" THEN arg.pairs[i].expr ELSE arg.strs[2 * i]
PairsGiven == IF arg.type = "pairs" THEN Len(arg.pairs) ELSE Len(arg.strs) \div 2

\* the bytes around one pair: two quotes, colon, space and the wrapper's
Around == 4 + (IF fn \in {"Computed", "ComputedV1"} THEN Len("() => ") ELSE 0)

\* where the opening quote of the i-th key stands in the value
RECURSIVE PairStart(_)
PairStart(i) ==
    IF i = 1 THEN 2
    ELSE PairStart(i - 1) + Len(KeyGiven(i - 1)) + Len(ExprGiven(i - 1)) + Around + 2

SingleValueBuilders == {"Text", "Show", "OnClick", "OnEvent", "OnIntersect", "ClassKey"}
PairFormatters ==
    {"Class", "Attr", "Style", "Computed", "ClassV1", "AttrV1", "StyleV1", "ComputedV1"}

\* C24: the value of a single-value builder is the expression itself; the
\* value of a pair builder holds each key and expression unchanged at its
\* place and no byte more than the punctuation
C24_Verbatim ==
    /\ fn \in SingleValueBuilders => TheValue(ret.val) = StrVal(arg.expr)
    /\ (fn \in PairFormatters /\ ret.how = "return") =>
           LET s == TheValue(ret.val).s
           IN  /\ \A i \in 1..PairsGiven :
                      LET at == PairStart(i)
                          k == KeyGiven(i)
                          e == ExprGiven(i)
                      IN  /\ SubSeq(s, at + 1, at + Len(k)) = k
                          /\ SubSeq(s, at + Len(k) + Around,
                                    at + Len(k) + Around + Len(e) - 1) = e
               /\ Len(s) = IF PairsGiven = 0 THEN 2 ELSE PairStart(PairsGiven + 1) - 2

C24_Witness ==
    /\ fn = "Computed"
    /\ arg.pairs = <<[key |-> "it's", expr |-> "f({a: \"b\\c\", d: 'e'})"]>>
    /\ TheValue(ret.val) = StrVal("{'it's': () => f({a: \"b\\c\", d: 'e'})}")

-----------------------------------------------------------------------------
(* C25: in Signals and in the pair builder the capacity reserved before    *)
(* the write pass is at least the number of bytes written, so the length   *)
(* stays within the capacity at every step and the buffer is not           *)
(* reallocated during the write pass.                                       *)

\* the builder after the capacity has been reserved
Reserved(b, capacity) ==
    IF b.cap < capacity THEN BGrow(b, capacity - Len(b.buf)) ELSE b

\* the builder after the opening brace and the first n pairs / signals
PairsWritten(b, pairs, f, n) ==
    WritePairs(SubSeq(pairs, 1, n), f, 1,
               BWrite(Reserved(b, PairsCapacity(pairs, f, 1, 2)), "{"))
SignalsWritten(b, signals, n) ==
    WriteSignals(SubSeq(signals, 1, n), 1,
                 BWrite(Reserved(b, SignalsCapacity(signals, 1, 2)), "{"))

\* every step w of a write pass stays in the buffer r reserved for capacity
WithinReserved(r, capacity, steps) ==
    /\ capacity <= r.cap
    /\ \A w \in steps : Len(w.buf) <= capacity /\ w.cap = r.cap

\* C25: whichever builder the call takes from the pool, the write pass of
\* buildPairs and of Signals stays within the reserved buffer
C25_NoReallocation ==
    /\ arg.type = "pairs" =>
          \A b \in PoolGet, f \in {"expr", "computed"} :
              WithinReserved(Reserved(b, PairsCapacity(arg.pairs, f, 1, 2)),
                             PairsCapacity(arg.pairs, f, 1, 2),
                             {PairsWritten(b, arg.pairs, f, n) : n \in 0..Len(arg.pairs)}
                                 \cup {buildPairs(b, arg.pairs, f)})
    /\ arg.type = "signals" =>
          \A b \in PoolGet :
              WithinReserved(Reserved(b, SignalsCapacity(arg.signals, 1, 2)),
                             SignalsCapacity(arg.signals, 1, 2),
                             {SignalsWritten(b, arg.signals, n) : n \in 0..Len(arg.signals)}
                                 \cup {signalsBody(b, arg.signals)})

\* a second call of Computed on two pairs finds a reset builder in the pool,
\* for which the whole capacity has to be reserved
C25_Witness ==
    /\ fn = "Computed"
    /\ Len(arg.pairs) = 2
    /\ \E b \in pool :
          /\ b.cap = 0
          /\ Reserved(b, PairsCapacity(arg.pairs, "computed", 1, 2)).cap > 0
          /\ Len(buildPairs(b, arg.pairs, "computed").buf) > 2

-----------------------------------------------------------------------------
(* C26: String(key, value) gives the text between double quotes with every *)
(* embedded double quote and backslash escaped by a backslash, so that     *)
(* String("name", "John") renders name: "John" and he said "hello" is      *)
(* rendered with \" inside.                                                 *)

\* reading a quoted text back: a backslash takes the next byte with it, a
\* double quote on its own is not allowed; [ok, text]
RECURSIVE Unescaped(_)
Unescaped(s) ==
    IF Len(s) = 0 THEN [ok |-> TRUE, text |-> ""]
    ELSE IF SubSeq(s, 1, 1) = "\\"
    THEN IF Len(s) = 1 THEN [ok |-> FALSE, text |-> ""]
         ELSE LET rest == Unescaped(SubSeq(s, 3, Len(s)))
                  c == SubSeq(s, 2, 2)
              IN  [ok |-> rest.ok,
                   text |-> (IF c = "n" THEN "\n" ELSE c) \o rest.text]
    ELSE IF SubSeq(s, 1, 1) = "\""
    THEN [ok |-> FALSE, text |-> ""]
    ELSE LET rest == Unescaped(SubSeq(s, 2, Len(s)))
         IN  [ok |-> rest.ok, text |-> SubSeq(s, 1, 1) \o rest.text]

\* how Signals renders the one signal sig
Rendered(sig) == signalsBody(NewBuilder(1), <<sig>>).buf

\* C26: the value is the text between double quotes, each double quote and
\* backslash of it behind a backslash of its own: read back, it is the text
C26_StringQuoted ==
    fn = "String" =>
        LET v == ret.val.value
            inner == SubSeq(v, 2, Len(v) - 1)
        IN  /\ ret.how = "return"
            /\ ret.val.key = arg.key
            /\ Len(v) >= 2
            /\ SubSeq(v, 1, 1) = "\"" /\ SubSeq(v, Len(v), Len(v)) = "\""
            /\ Unescaped(inner) = [ok |-> TRUE, text |-> arg.text]
            /\ (arg.key = "name" /\ arg.text = "John") =>
                   Rendered(ret.val) = "{name: \"John\"}"
            /\ (arg.key = "name" /\ arg.text = "he said \"hello\"") =>
                   Rendered(ret.val) = "{name: \"he said \\\"hello\\\"\"}"

C26_Witness ==
    /\ fn = "String"
    /\ arg.text = "\\\""
    /\ ret.val = Signal(arg.key, "\"\\\\\\\"\"")

-----------------------------------------------------------------------------
(* C28: the flat-string pair formatter and the typed-pair formatter agree: *)
(* for every list of even length toObject returns what the typed pair      *)
(* builder returns with the identity formatter, toComputed what it returns *)
(* with the "() => " formatter.                                             *)

\* the flat list k1, e1, k2, e2, ... as typed pairs
Paired(strs) ==
    [i \in 1..(Len(strs) \div 2) |-> [key |-> strs[2 * i - 1], expr |-> strs[2 * i]]]

\* the string of the typed pair builder, on any builder the pool can give
TypedStrings(pairs, f) ==
    {buildPairs(b, pairs, f).buf : b \in PoolGet \cup {BReset(NewBuilder(1))}}

-----------------------------------------------------------------------------
(* C29: Merge is associative and idempotent: Merge(Merge(A, B), C) =       *)
(* Merge(A, Merge(B, C)) = Merge(A, B, C), Merge(A, A) = Merge(A) = A, and *)
(* empty maps are neutral.                                                  *)

\* the list attrs with the maps i+1..j merged into one beforehand
Grouped(attrs, i, j) ==
    SubSeq(attrs, 1, i) \o <<Merge(SubSeq(attrs, i + 1, j))>>
        \o SubSeq(attrs, j + 1, Len(attrs))

\* the list attrs with an empty map put in after the i-th map
WithEmpty(attrs, i) ==
    SubSeq(attrs, 1, i) \o <<EmptyAttrs>> \o SubSeq(attrs, i + 1, Len(attrs))

\* C29: the result of Merge is the same when any run of consecutive
\* arguments is merged first or an empty map is put in anywhere; merging a
\* map with itself, or alone, gives a map equal to it
C29_MergeAlgebra ==
    fn = "Merge" =>
        LET as == arg.attrs
            n == Len(as)
        IN  /\ ret.val = Merge(as)
            /\ \A i \in 0..n : \A j \in i..n : Merge(Grouped(as, i, j)) = ret.val
            /\ n = 3 =>
                  /\ Merge(<<Merge(<<as[1], as[2]>>), as[3]>>) = ret.val
                  /\ Merge(<<as[1], Merge(<<as[2], as[3]>>)>>) = ret.val
            /\ \A i \in 0..n : Merge(WithEmpty(as, i)) = ret.val
            /\ \A A \in {as[i] : i \in 1..n} \cup {ret.val} :
                  /\ Merge(<<A, A>>) = A
                  /\ Merge(<<A>>) = A

\* three maps that give three different values to the same name
C29_Witness ==
    /\ fn = "Merge"
    /\ Len(arg.attrs) = 3
    /\ \A i \in 1..3 : "data-show" \in DOMAIN arg.attrs[i]
    /\ Cardinality({arg.attrs[i]["data-show"] : i \in 1..3}) = 3
    /\ DOMAIN arg.attrs[2] = AttrNames
    /\ ret.val = Merge(<<arg.attrs[1], Merge(<<arg.attrs[2], arg.attrs[3]>>)>>)

-----------------------------------------------------------------------------
(* C27: a string returned by a builder call is never changed afterwards:   *)
(* once the builder is reset and put back, a later call that takes the     *)
(* same builder and writes into it leaves every string returned before     *)
(* (and every attribute map holding it) with its original content.         *)

\* C27: every string returned so far reads as it did when it was returned
C27_ReturnedStringsKept ==
    \A i \in 1..Len(mem.kept) : Content(mem.arrays, mem.kept[i]) = mem.kept[i].text

\* a later call took the builder of an earlier one out of the pool and wrote
\* a shorter, different text
C27_Witness ==
    \E i, j \in 1..Len(mem.kept) :
        /\ i < j
        /\ mem.kept[i].id = mem.kept[j].id
        /\ mem.kept[i].addr # mem.kept[j].addr
        /\ mem.kept[j].len < mem.kept[i].len
        /\ mem.kept[i].text = "{'a': () => $x}"
        /\ ret.val = mem.kept[Len(mem.kept)].text
=============================================================================
